---- MODULE Spec2Model ----
(***************************************************************************)
(* OAuth2 login flow and token lifecycle of the gmail command line client: *)
(* src/src/auth/oauth.rs, token.rs, token_store.rs, config/settings.rs.    *)
(*                                                                         *)
(* Option<T> is modelled as a set with at most one element: None is {},    *)
(* Some(v) is {v}.  AppResult<T> is a record [ok, err] beside the value.   *)
(***************************************************************************)
EXTENDS Integers, Sequences, FiniteSets, TLC

\* ------------------------------------------------------------------ bounds
\* Stand-in for u64::MAX: the width at which saturating_add saturates.
U64Max == 100
\* Longest query string (number of key=value pairs) of a callback request.
MaxQuery == 3
\* Seconds the callback deadline timer advances in one step of the clock.
TickSecs == 90

\* ------------------------------------------------------- program constants
OAUTH_CALLBACK_TIMEOUT_SECS == 180
EXPIRY_SKEW_SECS == 30
DEFAULT_REDIRECT_URI == "http://127.0.0.1:8787/callback"

\* --------------------------------------------------------------- Option<T>
None == {}
Some(v) == {v}
is_none(o) == o = {}
is_some(o) == o # {}
unwrap(o) == CHOOSE v \in o : TRUE

\* ---------------------------------------------------------------- AppError
\* AppError variants (error.rs) with the message reduced to an identifier.
\* detail holds the values formatted into the message, in order.
AppError(kind, msg) == [kind |-> kind, msg |-> msg, detail |-> <<>>]
AppErrorWith(kind, msg, detail) == [kind |-> kind, msg |-> msg, detail |-> detail]
NoErr == AppError("none", "")
ErrNotLoggedIn == AppError("InvalidInput", "not logged in")
ErrNoRefreshToken == AppError("Auth", "access token expired and no refresh token is stored")
ErrMissingClientId == AppError("Config", "missing oauth client_id")
ErrMissingOAuthConfig == AppError("Config", "missing oauth client_id or client_secret")
ErrTimedOut == AppError("Auth", "timed out waiting for oauth callback")
ErrEmptyRequest == AppError("Auth", "empty oauth callback request")
ErrNonGet == AppError("Auth", "oauth callback received non-GET request")
ErrPathMismatch == AppError("Auth", "oauth callback path mismatch")
ErrAuthorizationFailed(error, description) ==
    AppErrorWith("Auth", "oauth authorization failed", <<error, description>>)
ErrMissingState == AppError("Auth", "oauth callback missing state parameter")
ErrStateMismatch == AppError("Auth", "oauth state mismatch; aborting login")
ErrMissingCode == AppError("Auth", "oauth callback missing code parameter")
ErrBind == AppError("Auth", "failed to bind oauth callback listener")
ErrRedirectScheme == AppError("Config", "redirect_uri must use http for local callback capture")
ErrRedirectHost == AppError("Config", "redirect_uri is missing host")
ErrRedirectPort == AppError("Config", "redirect_uri is missing port")
ErrUrlParse == AppError("Url", "url parse error")
ErrIo == AppError("Io", "io error")
ErrHttp == AppError("Http", "http error")
ErrJson == AppError("Json", "json error")
ErrTokenExchange(detail) == AppErrorWith("Auth", "oauth token exchange failed", detail)
ErrRevoke == AppError("Auth", "revoke endpoint returned non-2xx")

\* ---------------------------------------------------------------- TokenSet
TokenSet(at, rt, exp, tt, sc, em, nm) ==
    [access_token |-> at, refresh_token |-> rt, expires_at_unix |-> exp,
     token_type |-> tt, scope |-> sc, email |-> em, name |-> nm]
\* Placeholder where no TokenSet is held.
NoToken == TokenSet("", None, None, None, None, None, None)

\* u64::saturating_add at the modelled width.
saturating_add(a, b) == IF a + b > U64Max THEN U64Max ELSE a + b

\* SystemTime is an integer number of seconds relative to UNIX_EPOCH; a
\* negative value is a clock before the epoch, for which duration_since
\* returns Err.
duration_since_epoch(now) == IF now < 0 THEN None ELSE Some(now)

\* A plausible slip: the skew is subtracted from the wrong side (strict >).
is_expired_strict(tok, now) ==
    IF is_none(tok.expires_at_unix) THEN FALSE
    ELSE IF is_none(duration_since_epoch(now)) THEN FALSE
    ELSE saturating_add(unwrap(duration_since_epoch(now)), EXPIRY_SKEW_SECS)
            > unwrap(tok.expires_at_unix)

is_expired(tok, now) ==
    IF is_none(tok.expires_at_unix) THEN FALSE
    ELSE IF is_none(duration_since_epoch(now)) THEN FALSE
    ELSE saturating_add(unwrap(duration_since_epoch(now)), EXPIRY_SKEW_SECS)
            >= unwrap(tok.expires_at_unix)

expires_in_seconds(tok, now) ==
    IF is_none(tok.expires_at_unix) \/ is_none(duration_since_epoch(now)) THEN None
    ELSE Some(unwrap(tok.expires_at_unix) - now)

has_refresh_token(tok) == is_some(tok.refresh_token)

\* ---------------------------------------------------------------- Settings
Settings(cid, sec, uri) == [client_id |-> cid, client_secret |-> sec, redirect_uri |-> uri]

\* Settings::client_id: a missing client_id is a Config error.
client_id(settings) ==
    IF is_none(settings.client_id)
    THEN [ok |-> FALSE, err |-> ErrMissingClientId, val |-> ""]
    ELSE [ok |-> TRUE, err |-> NoErr, val |-> unwrap(settings.client_id)]

client_secret(settings) == settings.client_secret

redirect_uri(settings) ==
    IF is_none(settings.redirect_uri) THEN DEFAULT_REDIRECT_URI
    ELSE unwrap(settings.redirect_uri)

\* OAuthConfig::from_settings: fails exactly when client_id is missing.
from_settings(settings) ==
    IF ~client_id(settings).ok
    THEN [ok |-> FALSE, err |-> client_id(settings).err,
          client_id |-> "", client_secret |-> None, redirect_uri |-> ""]
    ELSE [ok |-> TRUE, err |-> NoErr,
          client_id |-> client_id(settings).val,
          client_secret |-> client_secret(settings),
          redirect_uri |-> redirect_uri(settings)]

\* Url::parse on the redirect URIs the model configures.  An http URL always
\* has a host and a known default port; a file URL has neither.
UrlParse(uri) ==
    CASE uri = "http://127.0.0.1:8787/callback" ->
            [ok |-> TRUE, scheme |-> "http", host |-> Some("127.0.0.1"),
             port |-> Some(8787), path |-> "/callback"]
      [] uri = "http://127.0.0.1:8788/callback" ->
            [ok |-> TRUE, scheme |-> "http", host |-> Some("127.0.0.1"),
             port |-> Some(8788), path |-> "/callback"]
      [] uri = "https://127.0.0.1:8787/callback" ->
            [ok |-> TRUE, scheme |-> "https", host |-> Some("127.0.0.1"),
             port |-> Some(8787), path |-> "/callback"]
      [] uri = "file:///callback" ->
            [ok |-> TRUE, scheme |-> "file", host |-> None, port |-> None,
             path |-> "/callback"]
      [] OTHER ->
            [ok |-> FALSE, scheme |-> "", host |-> None, port |-> None, path |-> ""]

\* -------------------------------------------------------------- Token store
\* One file per profile (AppPaths::token_file).  kind is "absent", "token"
\* (a TokenSet serialised as JSON) or "garbage" (content serde_json rejects:
\* a truncated or foreign file).  mode is the POSIX permission of the file.
File(kind, tok, mode) == [kind |-> kind, tok |-> tok, mode |-> mode]
AbsentFile == File("absent", NoToken, "none")
OwnerOnlyMode == "0600"
\* Mode of a file fs::write creates (0666 masked by the usual umask 022).
CreatedMode == "0644"

\* AppPaths::token_file: the file that tokens_dir.join("<profile>.json")
\* names, written as the name of the profile whose file it is.  The profile
\* is not checked for path components, and a leading "./" names the same
\* file.
token_file(p) ==
    CASE p = "./p1" -> "p1"
      [] OTHER -> p

\* FileTokenStore::load
load(file) ==
    CASE file.kind = "absent" -> [ok |-> TRUE, err |-> NoErr, val |-> None]
      [] file.kind = "token" -> [ok |-> TRUE, err |-> NoErr, val |-> Some(file.tok)]
      [] OTHER -> [ok |-> FALSE, err |-> ErrJson, val |-> None]

\* The step of FileTokenStore::save that fails, "none" when all succeed.
SaveFaults == {"none", "create_dir_all", "open", "write", "metadata", "set_permissions"}

\* FileTokenStore::save.  fs::write opens the file with create+truncate and
\* writes the payload; the permissions are set only afterwards.
save(file, token, fault) ==
    LET mode0 == IF file.kind = "absent" THEN CreatedMode ELSE file.mode
    IN CASE fault \in {"create_dir_all", "open"} ->
                [ok |-> FALSE, err |-> ErrIo, file |-> file]
         [] fault = "write" ->
                [ok |-> FALSE, err |-> ErrIo, file |-> File("garbage", NoToken, mode0)]
         [] fault \in {"metadata", "set_permissions"} ->
                [ok |-> FALSE, err |-> ErrIo, file |-> File("token", token, mode0)]
         [] OTHER ->
                [ok |-> TRUE, err |-> NoErr, file |-> File("token", token, OwnerOnlyMode)]

\* FileTokenStore::clear.  removeFails: fs::remove_file returns an error.
clear(file, removeFails) ==
    IF file.kind = "absent" THEN [ok |-> TRUE, err |-> NoErr, file |-> file]
    ELSE IF removeFails THEN [ok |-> FALSE, err |-> ErrIo, file |-> file]
    ELSE [ok |-> TRUE, err |-> NoErr, file |-> AbsentFile]

\* ------------------------------------------------------- Callback request
\* The first request read from the accepted connection: the method and the
\* target of its request line.  target_ok: "http://localhost" + target is a
\* URL that Url::parse accepts; path and query are the target's path and its
\* key=value pairs in order.
CallbackPaths == {"/callback", "/other"}
States == {"s1", "s2"}
QueryPairs ==
    {<<"code", "c1">>, <<"error", "access_denied">>, <<"error_description", "s1">>,
     <<"error_description", "sec">>}
        \cup {<<"state", s>> : s \in States}
QueryStrings == UNION {[1..n -> QueryPairs] : n \in 0..MaxQuery}
Requests ==
    [method : {"GET", "POST"}, target_ok : BOOLEAN, path : CallbackPaths,
     query : QueryStrings]

\* The loop over callback_url.query_pairs(): a later pair overwrites an
\* earlier one with the same key.
RECURSIVE query_fold(_, _)
query_fold(query, acc) ==
    IF query = <<>> THEN acc
    ELSE LET key == Head(query)[1]
             value == Head(query)[2]
             next == CASE key = "code" -> [acc EXCEPT !.code = Some(value)]
                       [] key = "state" -> [acc EXCEPT !.state = Some(value)]
                       [] key = "error" -> [acc EXCEPT !.oauth_error = Some(value)]
                       [] key = "error_description" ->
                              [acc EXCEPT !.oauth_error_description = Some(value)]
                       [] OTHER -> acc
         IN query_fold(Tail(query), next)

query_pairs(query) ==
    query_fold(query, [code |-> None, state |-> None, oauth_error |-> None,
                       oauth_error_description |-> None])

CodeOk(code) == [ok |-> TRUE, err |-> NoErr, code |-> Some(code)]
CodeErr(err) == [ok |-> FALSE, err |-> err, code |-> None]

\* A plausible slip: the state is required to be present but never compared.
extract_callback_code_unchecked(req, expected_path, expected_state) ==
    LET q == query_pairs(req.query)
    IN IF ~req.target_ok THEN CodeErr(ErrUrlParse)
       ELSE IF req.path # expected_path THEN CodeErr(ErrPathMismatch)
       ELSE IF is_some(q.oauth_error)
       THEN CodeErr(ErrAuthorizationFailed(unwrap(q.oauth_error),
                IF is_none(q.oauth_error_description) THEN "no description"
                ELSE unwrap(q.oauth_error_description)))
       ELSE IF is_none(q.state) THEN CodeErr(ErrMissingState)
       ELSE IF is_none(q.code) THEN CodeErr(ErrMissingCode)
       ELSE CodeOk(unwrap(q.code))

\* A plausible slip: the code is looked for before the state is checked.
extract_callback_code_code_first(req, expected_path, expected_state) ==
    LET q == query_pairs(req.query)
    IN IF ~req.target_ok THEN CodeErr(ErrUrlParse)
       ELSE IF req.path # expected_path THEN CodeErr(ErrPathMismatch)
       ELSE IF is_some(q.oauth_error)
       THEN CodeErr(ErrAuthorizationFailed(unwrap(q.oauth_error),
                IF is_none(q.oauth_error_description) THEN "no description"
                ELSE unwrap(q.oauth_error_description)))
       ELSE IF is_none(q.code) THEN CodeErr(ErrMissingCode)
       ELSE IF is_none(q.state) THEN CodeErr(ErrMissingState)
       ELSE IF unwrap(q.state) # expected_state THEN CodeErr(ErrStateMismatch)
       ELSE CodeOk(unwrap(q.code))

\* A plausible slip: the state-mismatch error names the state it expected.
extract_callback_code_names_state(req, expected_path, expected_state) ==
    LET q == query_pairs(req.query)
    IN IF ~req.target_ok THEN CodeErr(ErrUrlParse)
       ELSE IF req.path # expected_path THEN CodeErr(ErrPathMismatch)
       ELSE IF is_some(q.oauth_error)
       THEN CodeErr(ErrAuthorizationFailed(unwrap(q.oauth_error),
                IF is_none(q.oauth_error_description) THEN "no description"
                ELSE unwrap(q.oauth_error_description)))
       ELSE IF is_none(q.state) THEN CodeErr(ErrMissingState)
       ELSE IF unwrap(q.state) # expected_state
       THEN CodeErr(AppErrorWith("Auth", "oauth state mismatch; expected",
                                 <<expected_state>>))
       ELSE IF is_none(q.code) THEN CodeErr(ErrMissingCode)
       ELSE CodeOk(unwrap(q.code))

\* A plausible slip: the provider's error parameter is checked after the code.
extract_callback_code_error_last(req, expected_path, expected_state) ==
    LET q == query_pairs(req.query)
    IN IF ~req.target_ok THEN CodeErr(ErrUrlParse)
       ELSE IF req.path # expected_path THEN CodeErr(ErrPathMismatch)
       ELSE IF is_none(q.state) THEN CodeErr(ErrMissingState)
       ELSE IF unwrap(q.state) # expected_state THEN CodeErr(ErrStateMismatch)
       ELSE IF is_some(q.code) THEN CodeOk(unwrap(q.code))
       ELSE IF is_some(q.oauth_error)
       THEN CodeErr(ErrAuthorizationFailed(unwrap(q.oauth_error),
                IF is_none(q.oauth_error_description) THEN "no description"
                ELSE unwrap(q.oauth_error_description)))
       ELSE CodeErr(ErrMissingCode)

\* extract_callback_code
extract_callback_code(req, expected_path, expected_state) ==
    LET q == query_pairs(req.query)
    IN IF ~req.target_ok THEN CodeErr(ErrUrlParse)
       ELSE IF req.path # expected_path THEN CodeErr(ErrPathMismatch)
       ELSE IF is_some(q.oauth_error)
       THEN CodeErr(ErrAuthorizationFailed(unwrap(q.oauth_error),
                IF is_none(q.oauth_error_description) THEN "no description"
                ELSE unwrap(q.oauth_error_description)))
       ELSE IF is_none(q.state) THEN CodeErr(ErrMissingState)
       ELSE IF unwrap(q.state) # expected_state THEN CodeErr(ErrStateMismatch)
       ELSE IF is_none(q.code) THEN CodeErr(ErrMissingCode)
       ELSE CodeOk(unwrap(q.code))

\* The response wait_for_auth_callback writes for a request and the result it
\* returns once the response is written: 405 for a non-GET request, 200 with
\* the code, 400 with the validation error.
\* A plausible slip: a request with another method is answered like a GET
\* that fails validation.
handle_request_no_405(req, expected_path, expected_state) ==
    IF req.method # "GET"
    THEN [status |-> "400", res |-> CodeErr(ErrNonGet)]
    ELSE LET r == extract_callback_code(req, expected_path, expected_state)
         IN IF r.ok THEN [status |-> "200", res |-> r]
            ELSE [status |-> "400", res |-> r]

handle_request(req, expected_path, expected_state) ==
    IF req.method # "GET"
    THEN [status |-> "405", res |-> CodeErr(ErrNonGet)]
    ELSE LET r == extract_callback_code(req, expected_path, expected_state)
         IN IF r.ok THEN [status |-> "200", res |-> r]
            ELSE [status |-> "400", res |-> r]

\* escape_html (lines 569-576) replaces & < > " and ' by their entities; of
\* the texts of the model only the one below has such a character.
escape_html(input) ==
    CASE input = "<d1>" -> "&lt;d1&gt;"
      [] OTHER -> input

\* Display of AppError (error.rs 1-28): a prefix for the variant, the message
\* and what was formatted into it.
ErrorTexts(err) ==
    {IF err.kind = "Auth" THEN "auth error: " ELSE "error: ", err.msg}
        \cup {err.detail[i] : i \in DOMAIN err.detail}

\* The texts that make up the <p> element of the body that
\* write_callback_response sends (lines 514-517) for the messages of lines
\* 422-451.
callback_body(pending) ==
    LET message ==
            CASE pending.status = "405" -> {"oauth callback only accepts GET requests"}
              [] pending.status = "200" ->
                     {"gmail auth complete. you can return to the terminal."}
              [] pending.status = "400" ->
                     {"oauth callback error: "} \cup ErrorTexts(pending.res.err)
              [] OTHER -> {}
    IN {escape_html(text) : text \in message}

\* ---------------------------------------------------------- Token endpoint
\* OAuthTokenResponse payloads the provider may return on a 2xx response.
Payload(at, rt, expires_in, tt, sc) ==
    [access_token |-> at, refresh_token |-> rt, expires_in |-> expires_in,
     token_type |-> tt, scope |-> sc]
NoPayload == Payload("", None, None, None, None)
Payloads ==
    {Payload("at1", Some("rt1"), Some(40), Some("Bearer"), Some("sc1")),
     Payload("at2", None, Some(40), None, None)}

\* What a POST to the token endpoint comes back with: the request fails in
\* transport, a 2xx response with a token payload or with a body that is not
\* one, or a non-2xx response with a structured body, an unstructured body
\* or a body that cannot be read.
NonSuccessKinds == {"error_structured", "error_raw", "error_unreadable"}
TokenReplies ==
    {[kind |-> k, payload |-> NoPayload] :
        k \in {"send_error", "success_bad_json"} \cup NonSuccessKinds}
    \cup {[kind |-> "success", payload |-> p] : p \in Payloads}

\* Clock readings of SystemTime::now(); negative is before UNIX_EPOCH.
Nows == {-5, 0, 10}

expires_at_unix(expires_in, now) ==
    IF is_none(expires_in) THEN None
    ELSE IF is_none(duration_since_epoch(now)) THEN None
    ELSE Some(saturating_add(unwrap(duration_since_epoch(now)), unwrap(expires_in)))

TokenOk(tok) == [ok |-> TRUE, err |-> NoErr, tok |-> tok]
TokenErr(err) == [ok |-> FALSE, err |-> err, tok |-> NoToken]

\* A plausible slip: the status of the response is not looked at.
parse_token_response_any_status(reply, now) ==
    CASE reply.kind = "send_error" -> TokenErr(ErrHttp)
      [] reply.kind = "success_bad_json" -> TokenErr(ErrHttp)
      [] OTHER ->
            TokenOk(TokenSet(reply.payload.access_token, reply.payload.refresh_token,
                             expires_at_unix(reply.payload.expires_in, now),
                             reply.payload.token_type, reply.payload.scope, None, None))

\* .send().await? followed by parse_token_response.  The TokenSet built from
\* a payload carries no email and no name.
parse_token_response(reply, now) ==
    CASE reply.kind = "send_error" -> TokenErr(ErrHttp)
      [] reply.kind = "success_bad_json" -> TokenErr(ErrHttp)
      [] reply.kind = "error_structured" ->
            TokenErr(ErrTokenExchange(<<"error", "description">>))
      [] reply.kind = "error_raw" ->
            TokenErr(ErrTokenExchange(<<"body">>))
      [] reply.kind = "error_unreadable" -> TokenErr(ErrHttp)
      [] OTHER ->
            TokenOk(TokenSet(reply.payload.access_token, reply.payload.refresh_token,
                             expires_at_unix(reply.payload.expires_in, now),
                             reply.payload.token_type, reply.payload.scope, None, None))

\* fetch_email: Err (transport or JSON), Ok(None) (non-2xx, or no email field)
\* or Ok(Some(email)).
EmailReplies == {"error", "none", "e1"}
fetch_email(reply) ==
    CASE reply = "error" -> [ok |-> FALSE, val |-> None]
      [] reply = "none" -> [ok |-> TRUE, val |-> None]
      [] OTHER -> [ok |-> TRUE, val |-> Some(reply)]

\* `if let Ok(email) = fetch_email(..) { token.email = email }`
with_fetched_email(tok, reply) ==
    IF fetch_email(reply).ok THEN [tok EXCEPT !.email = fetch_email(reply).val] ELSE tok

\* A plausible slip: the access token is carried forward in place of the
\* refresh token that was sent.
exchange_refresh_token_wrong_carry(refresh_token, reply, now, emailReply) ==
    LET parsed == parse_token_response(reply, now)
        carried == IF is_none(parsed.tok.refresh_token)
                   THEN [parsed.tok EXCEPT !.refresh_token = Some(parsed.tok.access_token)]
                   ELSE parsed.tok
    IN IF ~parsed.ok THEN parsed
       ELSE TokenOk(IF is_none(carried.email) THEN with_fetched_email(carried, emailReply)
                    ELSE carried)

\* exchange_refresh_token: the refresh grant, with the refresh token that was
\* sent carried into a response that has none, then the email lookup.
exchange_refresh_token(refresh_token, reply, now, emailReply) ==
    LET parsed == parse_token_response(reply, now)
        carried == IF is_none(parsed.tok.refresh_token)
                   THEN [parsed.tok EXCEPT !.refresh_token = Some(refresh_token)]
                   ELSE parsed.tok
    IN IF ~parsed.ok THEN parsed
       ELSE TokenOk(IF is_none(carried.email) THEN with_fetched_email(carried, emailReply)
                    ELSE carried)

\* AuthService::refresh, lines 110-117: the exchanged token with the refresh
\* token and the email of the current token kept when the exchange has none.
refreshed_token(current, exchanged) ==
    LET t1 == IF is_none(exchanged.refresh_token)
              THEN [exchanged EXCEPT !.refresh_token = current.refresh_token]
              ELSE exchanged
    IN IF is_none(t1.email) THEN [t1 EXCEPT !.email = current.email] ELSE t1

\* revoke_token: Ok, a transport error, or a non-2xx status.
RevokeReplies == {"ok", "send_error", "non_2xx"}
revoke_token(reply) ==
    CASE reply = "ok" -> [ok |-> TRUE, err |-> NoErr]
      [] reply = "send_error" -> [ok |-> FALSE, err |-> ErrHttp]
      [] OTHER -> [ok |-> FALSE, err |-> ErrRevoke]

\* The form posted to the token endpoint.  A field that is not in the form is
\* None; the client_secret field is there only when one is configured.
NoForm ==
    [grant_type |-> "none", code |-> None, refresh_token |-> None, client_id |-> None,
     redirect_uri |-> None, code_verifier |-> None, client_secret |-> None]
\* exchange_auth_code, lines 256-266
auth_code_form(config, code, code_verifier) ==
    [grant_type |-> "authorization_code", code |-> Some(code), refresh_token |-> None,
     client_id |-> Some(config.client_id), redirect_uri |-> Some(config.redirect_uri),
     code_verifier |-> Some(code_verifier), client_secret |-> config.client_secret]
\* exchange_refresh_token, lines 278-286
refresh_form(config, refresh_token) ==
    [grant_type |-> "refresh_token", code |-> None, refresh_token |-> Some(refresh_token),
     client_id |-> Some(config.client_id), redirect_uri |-> None,
     code_verifier |-> None, client_secret |-> config.client_secret]

\* ---------------------------------------------- commands::auth (login)
\* What the user types when prompted: prompt_required returns a non-empty
\* line, prompt_optional for the redirect_uri an empty one (the default).
TypedClientId == "cid"
TypedClientSecret == "sec"

\* ensure_login_settings: the settings login is called with.  terminal: stdin
\* is a terminal; ioFails: a prompt or config::save_settings fails.
ensure_login_settings(s, terminal, ioFails) ==
    LET missing_client_id == is_none(s.client_id)
        missing_client_secret == is_none(s.client_secret)
        prompted ==
            Settings(IF missing_client_id THEN Some(TypedClientId) ELSE s.client_id,
                     IF missing_client_secret THEN Some(TypedClientSecret)
                     ELSE s.client_secret,
                     Some(redirect_uri(s)))
    IN IF ~missing_client_id /\ ~missing_client_secret
       THEN [ok |-> TRUE, err |-> NoErr, settings |-> s]
       ELSE IF ~terminal THEN [ok |-> FALSE, err |-> ErrMissingOAuthConfig, settings |-> s]
       ELSE IF ioFails THEN [ok |-> FALSE, err |-> ErrIo, settings |-> s]
       ELSE [ok |-> TRUE, err |-> NoErr, settings |-> prompted]

\* ------------------------------------------------------------------- State
VARIABLES
    settings,   \* Settings of the profile (AppContext.settings)
    profile,    \* the profile of this invocation (AppContext.profile)
    store,      \* token file of every profile (FileTokenStore)
    pc,         \* "idle", or the await point a running login is suspended at
    login,      \* locals of the running login: LoginFlow, pending response, code, token
    sock,       \* callback listener, accepted connection, response written to it
    elapsed,    \* seconds since time::timeout started
    cb,         \* what the request read from the connection carried
    calls,      \* endpoint and store calls made by the current operation
    start,      \* token file of the profile when the current operation began
    result      \* what the last finished operation returned

vars == <<settings, profile, store, pc, login, sock, elapsed, cb, calls, start, result>>

Profiles == {"p1", "p2"}
TokenFiles == {token_file(p) : p \in Profiles}
\* The random state and code_verifier a LoginFlow may draw.
Flows == {[state |-> "s1", code_verifier |-> "v1"], [state |-> "s2", code_verifier |-> "v2"]}

InitTokens ==
    {TokenSet("at0", Some("rt0"), Some(40), Some("Bearer"), Some("sc0"), Some("e0"), Some("n0")),
     TokenSet("at0", None, Some(40), None, None, None, None),
     TokenSet("at0", Some("rt0"), None, Some("Bearer"), None, None, None)}
InitFiles ==
    {AbsentFile, File("garbage", NoToken, OwnerOnlyMode)}
        \cup {File("token", t, OwnerOnlyMode) : t \in InitTokens}
\* The token file of the profile this invocation does not use.
OtherFile ==
    File("token", TokenSet("at9", Some("rt9"), Some(40), None, None, None, None),
         OwnerOnlyMode)

SettingsSet ==
    {Settings(None, None, None),
     Settings(Some("cid"), None, None),
     Settings(Some("cid"), Some("sec"), Some(DEFAULT_REDIRECT_URI)),
     Settings(Some("cid"), Some("sec"), Some("https://127.0.0.1:8787/callback")),
     Settings(Some("cid"), Some("sec"), Some("file:///callback")),
     Settings(Some("cid"), Some("sec"), Some("not a url"))}

\* pkce_challenge (lines 535-538): the base64url text of the SHA-256 digest of
\* the verifier, a string that is not the verifier and that differs for
\* different verifiers.
pkce_challenge(verifier) ==
    CASE verifier = "v1" -> "h1"
      [] verifier = "v2" -> "h2"
      [] OTHER -> "h0"

\* The query of the authorization URL, lines 211-221.
AuthorizationUrl(cid, uri, state, code_challenge) ==
    [response_type |-> "code", client_id |-> cid, redirect_uri |-> uri,
     scope |-> "OAUTH_SCOPES", access_type |-> "offline", prompt |-> "consent",
     state |-> state, code_challenge |-> code_challenge, code_challenge_method |-> "S256"]
NoUrl == [AuthorizationUrl("", "", "", "") EXCEPT !.code_challenge_method = ""]

\* A plausible slip: the challenge in the URL is computed from a token of its
\* own instead of the code_verifier the flow keeps.
LoginFlowOtherChallenge(config, state, code_verifier) ==
    [authorization_url |->
         AuthorizationUrl(config.client_id, config.redirect_uri, state,
                          pkce_challenge(IF code_verifier = "v1" THEN "v2" ELSE "v1")),
     code_verifier |-> code_verifier,
     state |-> state]

\* LoginFlow::new (lines 205-229) with the two random tokens it drew.
LoginFlow(config, state, code_verifier) ==
    [authorization_url |->
         AuthorizationUrl(config.client_id, config.redirect_uri, state,
                          pkce_challenge(code_verifier)),
     code_verifier |-> code_verifier,
     state |-> state]

NoPending == [status |-> "none", res |-> CodeErr(NoErr)]
NoLogin ==
    [state |-> "", code_verifier |-> "", authorization_url |-> NoUrl,
     opened_browser |-> FALSE, pending |-> NoPending, code |-> None, token |-> NoToken]
\* body: the texts of the response body written to the connection.
NoSock == [listener |-> "none", conn |-> "none", response |-> "none", body |-> {}]
NoCallback ==
    [received |-> FALSE, get |-> FALSE, target_ok |-> FALSE, state_match |-> FALSE,
     has_error |-> FALSE]
\* Number of calls to the token, userinfo and revoke endpoints and to
\* TokenStore::save and clear; reply is what the token endpoint answered and
\* revoke_failed whether revoke_token returned an error; browser counts the
\* times the authorization URL was handed to the browser or printed and url
\* is that URL; form is the form last posted to the token endpoint.
NoReply == [kind |-> "none", payload |-> NoPayload]
NoCalls ==
    [token |-> 0, userinfo |-> 0, revoke |-> 0, save |-> 0, clear |-> 0,
     reply |-> NoReply, revoke_failed |-> FALSE, browser |-> 0, url |-> NoUrl,
     form |-> NoForm]

\* AuthStatus and AuthLoginResult, without the profile name.
AuthStatus(logged_in, email, expired, expires_in, has_refresh, note) ==
    [logged_in |-> logged_in, email |-> email, expired |-> expired,
     expires_in_seconds |-> expires_in, has_refresh_token |-> has_refresh, note |-> note]
NoStatus == AuthStatus(FALSE, None, None, None, None, "")
AuthLoginResult(started, opened_browser, authorization_url, email, note) ==
    [started |-> started, opened_browser |-> opened_browser,
     authorization_url |-> authorization_url, email |-> email, note |-> note]
NoLoginResult == AuthLoginResult(FALSE, FALSE, NoUrl, None, "")

\* The value an operation returned: op is the operation, ok/err its
\* AppResult, token the TokenSet of Ok(TokenSet), status and login_result the
\* records of Ok(AuthStatus) and Ok(AuthLoginResult); now is the clock reading
\* at the time of a refresh or status call (0 for the other operations).
NoResult ==
    [op |-> "none", ok |-> FALSE, err |-> NoErr, token |-> NoToken, status |-> NoStatus,
     login_result |-> NoLoginResult, now |-> 0]
Failed(op, err) == [NoResult EXCEPT !.op = op, !.err = err]

\* What the request carried, stated on the request itself: whether it is a
\* GET, whether its target is a URL, whether one of its query pairs is the
\* state of this login, whether it has an error parameter.
Carried(req, expected_state) ==
    [received |-> TRUE, get |-> req.method = "GET", target_ok |-> req.target_ok,
     state_match |-> \E i \in DOMAIN req.query : req.query[i] = <<"state", expected_state>>,
     has_error |-> \E i \in DOMAIN req.query : req.query[i][1] = "error"]

Init ==
    /\ settings \in SettingsSet
    /\ profile = "p1"
    /\ \E f \in InitFiles :
          store = [f2 \in TokenFiles |-> IF f2 = token_file(profile) THEN f ELSE OtherFile]
    /\ pc = "idle"
    /\ login = NoLogin
    /\ sock = NoSock
    /\ elapsed = 0
    /\ cb = NoCallback
    /\ calls = NoCalls
    /\ start = store[token_file(profile)]
    /\ result = NoResult

\* An operation begins: nothing of the previous one is kept.
Begin ==
    /\ pc = "idle"
    /\ start' = store[token_file(profile)]
    /\ UNCHANGED <<settings, profile>>

\* A plausible slip: the listener is moved into a task that outlives the
\* call, so only the stream is closed on return.
DroppedStreamOnly(s) ==
    [s EXCEPT !.conn = IF s.conn = "open" THEN "closed" ELSE s.conn]

\* Dropping the listener and the stream closes them.
Dropped(s) ==
    [s EXCEPT !.listener = IF s.listener = "bound" THEN "closed" ELSE s.listener,
              !.conn = IF s.conn = "open" THEN "closed" ELSE s.conn]

\* ------------------------------------------------------ AuthService::login
\* login returns Err(err): every local is dropped.
LoginFails(err) ==
    /\ pc' = "idle"
    /\ result' = Failed("login", err)
    /\ sock' = Dropped(sock)
    /\ login' = NoLogin
    /\ elapsed' = 0

\* Lines 57-66: the configuration is resolved, the LoginFlow is built with a
\* fresh state and code_verifier, and the browser is asked to open the URL.
LoginStart(s) ==
    /\ cb' = NoCallback
    /\ UNCHANGED store
    /\ IF ~from_settings(s).ok
       THEN /\ calls' = NoCalls
            /\ pc' = "idle"
            /\ result' = Failed("login", from_settings(s).err)
            /\ login' = NoLogin
            /\ sock' = NoSock
            /\ elapsed' = 0
       ELSE /\ \E drawn \in Flows, opened \in BOOLEAN :
                  \E flow \in {LoginFlow(from_settings(s), drawn.state, drawn.code_verifier)} :
                     /\ login' = [NoLogin EXCEPT !.state = flow.state,
                                                 !.code_verifier = flow.code_verifier,
                                                 !.authorization_url = flow.authorization_url,
                                                 !.opened_browser = opened]
                     /\ calls' = [NoCalls EXCEPT !.browser = 1,
                                                 !.url = flow.authorization_url]
            /\ pc' = "bind"
            /\ result' = NoResult
            /\ sock' = NoSock
            /\ elapsed' = 0

\* AuthService::login called with the settings of the profile as they are.
LoginBegin ==
    /\ Begin
    /\ LoginStart(settings)

\* commands::auth::run, AuthCommand::Login (lines 11-13): the settings are
\* completed by ensure_login_settings, which writes what it prompted for to
\* the settings file of the profile, and AuthService::login is called with
\* them.  An error of login is the error of the command (the retry of lines
\* 15-18 never calls login again, see SpecCommand); when
\* ensure_login_settings fails, login is not called and the command (op
\* "auth login") returns its error.
AuthLoginCommand ==
    /\ pc = "idle"
    /\ start' = store[token_file(profile)]
    /\ UNCHANGED profile
    /\ \E terminal \in BOOLEAN, ioFails \in BOOLEAN :
          LET ensured == ensure_login_settings(settings, terminal, ioFails)
          IN /\ settings' = ensured.settings
             /\ IF ensured.ok THEN LoginStart(ensured.settings)
                ELSE /\ calls' = NoCalls
                     /\ pc' = "idle"
                     /\ result' = Failed("auth login", ensured.err)
                     /\ login' = NoLogin
                     /\ sock' = NoSock
                     /\ elapsed' = 0
                     /\ cb' = NoCallback
                     /\ UNCHANGED store

\* A plausible slip: the listener is bound to whatever the redirect URI
\* names, the scheme, host and port left unchecked.
LoginBindUnchecked ==
    /\ pc = "bind"
    /\ UNCHANGED <<settings, profile, store, cb, calls, start>>
    /\ LET redirect == UrlParse(redirect_uri(settings))
       IN IF ~redirect.ok THEN LoginFails(ErrUrlParse)
          ELSE \E bound \in BOOLEAN :
                  IF ~bound THEN LoginFails(ErrBind)
                  ELSE /\ pc' = "accept"
                       /\ sock' = [sock EXCEPT !.listener = "bound"]
                       /\ elapsed' = 0
                       /\ UNCHANGED <<login, result>>

\* wait_for_auth_callback, lines 382-401: the redirect URI is parsed and
\* checked, then the listener is bound.
LoginBind ==
    /\ pc = "bind"
    /\ UNCHANGED <<settings, profile, store, cb, calls, start>>
    /\ LET redirect == UrlParse(redirect_uri(settings))
       IN IF ~redirect.ok THEN LoginFails(ErrUrlParse)
          ELSE IF redirect.scheme # "http" THEN LoginFails(ErrRedirectScheme)
          ELSE IF is_none(redirect.host) THEN LoginFails(ErrRedirectHost)
          ELSE IF is_none(redirect.port) THEN LoginFails(ErrRedirectPort)
          ELSE \E bound \in BOOLEAN :
                  IF ~bound THEN LoginFails(ErrBind)
                  ELSE /\ pc' = "accept"
                       /\ sock' = [sock EXCEPT !.listener = "bound"]
                       /\ elapsed' = 0
                       /\ UNCHANGED <<login, result>>

\* The await points of the future that time::timeout races against the
\* deadline.  An event the future observes has happened before the deadline.
Waiting == {"accept", "read", "respond"}
BeforeDeadline == elapsed < OAUTH_CALLBACK_TIMEOUT_SECS

\* listener.accept(): a client connects, or accept fails.
Accept ==
    /\ pc = "accept"
    /\ BeforeDeadline
    /\ UNCHANGED <<settings, profile, store, cb, calls, start>>
    /\ \E accepted \in BOOLEAN :
          IF accepted
          THEN /\ pc' = "read"
               /\ sock' = [sock EXCEPT !.conn = "open"]
               /\ UNCHANGED <<login, result, elapsed>>
          ELSE LoginFails(ErrIo)

\* stream.read() returns a request; lines 412-453 up to the response write.
ReadRequest ==
    /\ pc = "read"
    /\ BeforeDeadline
    /\ UNCHANGED <<settings, profile, store, calls, start, sock, elapsed, result>>
    /\ \E req \in Requests :
          /\ login' = [login EXCEPT !.pending =
                          handle_request(req, UrlParse(redirect_uri(settings)).path,
                                         login.state)]
          /\ cb' = Carried(req, login.state)
    /\ pc' = "respond"

\* A plausible slip: after a connection that sent nothing, the listener goes
\* on to accept the next one.
ReadNothingAcceptsAgain ==
    /\ pc = "read"
    /\ BeforeDeadline
    /\ UNCHANGED <<settings, profile, store, cb, calls, start>>
    /\ \E eof \in BOOLEAN :
          IF eof
          THEN /\ pc' = "accept"
               /\ sock' = [sock EXCEPT !.conn = "none"]
               /\ UNCHANGED <<login, result, elapsed>>
          ELSE LoginFails(ErrIo)

\* stream.read() returns 0 bytes (the client closed) or an error.
ReadNothing ==
    /\ pc = "read"
    /\ BeforeDeadline
    /\ UNCHANGED <<settings, profile, store, cb, calls, start>>
    /\ \E eof \in BOOLEAN : LoginFails(IF eof THEN ErrEmptyRequest ELSE ErrIo)

\* write_callback_response: write_all then shutdown, either of which may fail.
WriteOutcomes == {"ok", "write_all_fails", "shutdown_fails"}

\* The response write completes; wait_for_auth_callback returns, and with an
\* Ok(code) login goes on to the token exchange.
Respond ==
    /\ pc = "respond"
    /\ BeforeDeadline
    /\ UNCHANGED <<settings, profile, store, cb, calls, start>>
    /\ \E w \in WriteOutcomes :
          LET written ==
                  IF w = "write_all_fails" THEN [sock EXCEPT !.response = "none"]
                  ELSE [sock EXCEPT !.response = login.pending.status,
                                    !.body = callback_body(login.pending)]
              res == IF login.pending.status = "400" THEN login.pending.res
                     ELSE IF w = "ok" THEN login.pending.res
                     ELSE CodeErr(ErrIo)
          IN IF res.ok
             THEN /\ pc' = "exchange"
                  /\ login' = [login EXCEPT !.code = res.code, !.pending = NoPending]
                  /\ sock' = Dropped(written)
                  /\ elapsed' = 0
                  /\ UNCHANGED result
             ELSE /\ pc' = "idle"
                  /\ result' = Failed("login", res.err)
                  /\ sock' = Dropped(written)
                  /\ login' = NoLogin
                  /\ elapsed' = 0

\* Time passes while the future is pending.
Tick ==
    /\ pc \in Waiting
    /\ BeforeDeadline
    /\ elapsed' = elapsed + TickSecs
    /\ UNCHANGED <<settings, profile, store, pc, login, sock, cb, calls, start, result>>

\* A plausible slip: time::timeout wraps listener.accept() alone, so the
\* deadline no longer covers a client that connects and sends nothing.
TimeoutAcceptOnly ==
    /\ pc = "accept"
    /\ ~BeforeDeadline
    /\ UNCHANGED <<settings, profile, store, cb, calls, start>>
    /\ LoginFails(ErrTimedOut)

\* The deadline passes first: time::timeout drops the future and returns
\* Elapsed, which line 458 maps to the timeout error.
Timeout ==
    /\ pc \in Waiting
    /\ ~BeforeDeadline
    /\ UNCHANGED <<settings, profile, store, cb, calls, start>>
    /\ LoginFails(ErrTimedOut)

\* exchange_auth_code (line 75): the authorization-code grant.
Exchange ==
    /\ pc = "exchange"
    /\ UNCHANGED <<settings, profile, store, cb, start, sock, elapsed>>
    /\ \E reply \in TokenReplies, now \in Nows :
          LET r == parse_token_response(reply, now)
          IN /\ calls' = [calls EXCEPT !.token = @ + 1, !.reply = reply,
                                       !.form = auth_code_form(from_settings(settings),
                                                               unwrap(login.code),
                                                               login.code_verifier)]
             /\ IF r.ok
                THEN /\ pc' = "userinfo"
                     /\ login' = [login EXCEPT !.token = r.tok]
                     /\ UNCHANGED result
                ELSE /\ pc' = "idle"
                     /\ result' = Failed("login", r.err)
                     /\ login' = NoLogin

\* fetch_email (lines 76-78): a failed lookup leaves the token as it is.
Userinfo ==
    /\ pc = "userinfo"
    /\ UNCHANGED <<settings, profile, store, cb, start, sock, elapsed, result>>
    /\ calls' = [calls EXCEPT !.userinfo = @ + 1]
    /\ \E reply \in EmailReplies :
          login' = [login EXCEPT !.token = with_fetched_email(login.token, reply)]
    /\ pc' = "save"

\* A plausible slip: the result of store.save is dropped (`let _ =`), and
\* login returns Ok whether or not the token was written.
SaveResultIgnored ==
    /\ pc = "save"
    /\ UNCHANGED <<settings, profile, cb, start, sock, elapsed>>
    /\ calls' = [calls EXCEPT !.save = @ + 1]
    /\ \E fault \in SaveFaults :
          LET r == save(store[token_file(profile)], login.token, fault)
          IN /\ store' = [store EXCEPT ![token_file(profile)] = r.file]
             /\ result' =
                   [NoResult EXCEPT !.op = "login", !.ok = TRUE,
                      !.token = login.token,
                      !.login_result =
                          AuthLoginResult(TRUE, login.opened_browser,
                                          login.authorization_url, login.token.email,
                                          "oauth login completed and token stored")]
    /\ pc' = "idle"
    /\ login' = NoLogin

\* store.save (line 79) and the AuthLoginResult of lines 81-88.
Save ==
    /\ pc = "save"
    /\ UNCHANGED <<settings, profile, cb, start, sock, elapsed>>
    /\ calls' = [calls EXCEPT !.save = @ + 1]
    /\ \E fault \in SaveFaults :
          LET r == save(store[token_file(profile)], login.token, fault)
          IN /\ store' = [store EXCEPT ![token_file(profile)] = r.file]
             /\ result' =
                   IF r.ok
                   THEN [NoResult EXCEPT !.op = "login", !.ok = TRUE,
                            !.token = login.token,
                            !.login_result =
                                AuthLoginResult(TRUE, login.opened_browser,
                                                login.authorization_url, login.token.email,
                                                "oauth login completed and token stored")]
                   ELSE Failed("login", r.err)
    /\ pc' = "idle"
    /\ login' = NoLogin

\* ---------------------------------------------------- AuthService::refresh
Plan(step, err, token, now) == [step |-> step, err |-> err, token |-> token, now |-> now]

\* A plausible slip: the expiry test of line 102 is left out.
refresh_precheck_no_expiry_test(s, file, now) ==
    LET oauth == from_settings(s)
        current == load(file)
    IN IF ~oauth.ok THEN Plan("err", oauth.err, NoToken, now)
       ELSE IF ~current.ok THEN Plan("err", current.err, NoToken, now)
       ELSE IF is_none(current.val) THEN Plan("err", ErrNotLoggedIn, NoToken, now)
       ELSE IF is_none(unwrap(current.val).refresh_token)
       THEN Plan("err", ErrNoRefreshToken, NoToken, now)
       ELSE Plan("grant", NoErr, unwrap(current.val), now)

\* A plausible slip: an expired token without a refresh token is returned as
\* it is instead of failing.
refresh_precheck_stale_ok(s, file, now) ==
    LET oauth == from_settings(s)
        current == load(file)
    IN IF ~oauth.ok THEN Plan("err", oauth.err, NoToken, now)
       ELSE IF ~current.ok THEN Plan("err", current.err, NoToken, now)
       ELSE IF is_none(current.val) THEN Plan("err", ErrNotLoggedIn, NoToken, now)
       ELSE IF ~is_expired(unwrap(current.val), now)
       THEN Plan("current", NoErr, unwrap(current.val), now)
       ELSE IF is_none(unwrap(current.val).refresh_token)
       THEN Plan("current", NoErr, unwrap(current.val), now)
       ELSE Plan("grant", NoErr, unwrap(current.val), now)

\* Lines 96-108: what refresh decides before it contacts the token endpoint.
\* step "err": return Err(err); "current": return Ok(current); "grant": the
\* refresh grant is needed.  now is the clock at the time of the call, which
\* line 102 reads.
refresh_precheck(s, file, now) ==
    LET oauth == from_settings(s)
        current == load(file)
    IN IF ~oauth.ok THEN Plan("err", oauth.err, NoToken, now)
       ELSE IF ~current.ok THEN Plan("err", current.err, NoToken, now)
       ELSE IF is_none(current.val) THEN Plan("err", ErrNotLoggedIn, NoToken, now)
       ELSE IF ~is_expired(unwrap(current.val), now)
       THEN Plan("current", NoErr, unwrap(current.val), now)
       ELSE IF is_none(unwrap(current.val).refresh_token)
       THEN Plan("err", ErrNoRefreshToken, NoToken, now)
       ELSE Plan("grant", NoErr, unwrap(current.val), now)

\* What an operation on the store and the token endpoint comes to: its
\* AppResult (token is the TokenSet of Ok), the calls it made and the token
\* file it leaves.
Outcome(ok, err, token, made, file) ==
    [ok |-> ok, err |-> err, token |-> token, calls |-> made, file |-> file]

\* AuthService::refresh.  now is the clock read at line 102; reply, now2 and
\* emailReply are the answer of the token endpoint, the clock read by
\* expires_at_unix and the answer of the userinfo endpoint; fault is the step
\* of save that fails.
refresh(s, file, now, reply, now2, emailReply, fault) ==
    LET plan == refresh_precheck(s, file, now)
        x == exchange_refresh_token(unwrap(plan.token.refresh_token), reply, now2,
                                    emailReply)
        refreshed == refreshed_token(plan.token, x.tok)
        form == refresh_form(from_settings(s), unwrap(plan.token.refresh_token))
        r == save(file, refreshed, fault)
    IN IF plan.step = "err" THEN Outcome(FALSE, plan.err, NoToken, NoCalls, file)
       ELSE IF plan.step = "current" THEN Outcome(TRUE, NoErr, plan.token, NoCalls, file)
       ELSE IF ~x.ok
       THEN Outcome(FALSE, x.err, NoToken,
                    [NoCalls EXCEPT !.token = 1, !.reply = reply, !.form = form], file)
       ELSE Outcome(r.ok, r.err, IF r.ok THEN refreshed ELSE NoToken,
                    [NoCalls EXCEPT !.token = 1, !.userinfo = 1, !.save = 1,
                                    !.reply = reply, !.form = form],
                    r.file)

\* The answers an operation that may refresh consumes: none when no grant is
\* made; otherwise the answer of the token endpoint and the clock read by
\* expires_at_unix and, when the grant succeeds, the answer of the userinfo
\* endpoint and the step of save that fails.
GrantInputs(granted, now) ==
    IF ~granted
    THEN {[reply |-> NoReply, now2 |-> now, emailReply |-> "none", fault |-> "none"]}
    ELSE {i \in [reply : TokenReplies, now2 : Nows, emailReply : EmailReplies,
                 fault : SaveFaults] :
             \/ parse_token_response(i.reply, i.now2).ok
             \/ i.emailReply = "none" /\ i.fault = "none"}

Refresh ==
    /\ Begin
    /\ UNCHANGED <<pc, login, elapsed>>
    /\ cb' = NoCallback
    /\ sock' = NoSock
    /\ \E now \in Nows :
          LET file == store[token_file(profile)]
              granted == refresh_precheck(settings, file, now).step = "grant"
          IN \E i \in GrantInputs(granted, now) :
                \E out \in {refresh(settings, file, now, i.reply, i.now2, i.emailReply,
                                     i.fault)} :
                   /\ result' = [NoResult EXCEPT !.op = "refresh", !.ok = out.ok,
                                     !.err = out.err, !.token = out.token, !.now = now]
                   /\ calls' = out.calls
                   /\ store' = [store EXCEPT ![token_file(profile)] = out.file]

\* ------------------------------------------------ AppContext::access_token
\* The TokenSet an access token is returned in: the String alone.
AccessTokenOf(tok) == [NoToken EXCEPT !.access_token = tok.access_token]

\* A plausible slip: when the refresh fails, the stored access token is
\* handed out all the same.
access_token_stale_fallback(s, file, now1, now, reply, now2, emailReply, fault) ==
    LET loaded == load(file)
        r == refresh(s, file, now, reply, now2, emailReply, fault)
    IN IF ~loaded.ok THEN Outcome(FALSE, loaded.err, NoToken, NoCalls, file)
       ELSE IF is_none(loaded.val) THEN Outcome(FALSE, ErrNotLoggedIn, NoToken, NoCalls, file)
       ELSE IF is_expired(unwrap(loaded.val), now1)
       THEN IF r.ok THEN Outcome(TRUE, NoErr, AccessTokenOf(r.token), r.calls, r.file)
            ELSE Outcome(TRUE, NoErr, AccessTokenOf(unwrap(loaded.val)), r.calls, r.file)
       ELSE Outcome(TRUE, NoErr, AccessTokenOf(unwrap(loaded.val)), NoCalls, file)

\* AppContext::access_token (context.rs, lines 39-51).  now1 is the clock
\* read at line 44, now the one AuthService::refresh reads afterwards.
access_token(s, file, now1, now, reply, now2, emailReply, fault) ==
    LET loaded == load(file)
        r == refresh(s, file, now, reply, now2, emailReply, fault)
    IN IF ~loaded.ok THEN Outcome(FALSE, loaded.err, NoToken, NoCalls, file)
       ELSE IF is_none(loaded.val) THEN Outcome(FALSE, ErrNotLoggedIn, NoToken, NoCalls, file)
       ELSE IF is_expired(unwrap(loaded.val), now1)
       THEN IF r.ok THEN Outcome(TRUE, NoErr, AccessTokenOf(r.token), r.calls, r.file)
            ELSE Outcome(FALSE, r.err, NoToken, r.calls, r.file)
       ELSE Outcome(TRUE, NoErr, AccessTokenOf(unwrap(loaded.val)), NoCalls, file)

\* result.now is the first clock reading, the one access_token itself takes.
AccessToken ==
    /\ Begin
    /\ UNCHANGED <<pc, login, elapsed>>
    /\ cb' = NoCallback
    /\ sock' = NoSock
    /\ \E now1 \in Nows :
          LET file == store[token_file(profile)]
              refreshes == /\ load(file).ok
                           /\ is_some(load(file).val)
                           /\ is_expired(unwrap(load(file).val), now1)
          IN \E now \in (IF refreshes THEN Nows ELSE {now1}) :
                LET granted == refreshes
                               /\ refresh_precheck(settings, file, now).step = "grant"
                IN \E i \in GrantInputs(granted, now) :
                      \E out \in {access_token(settings, file, now1, now, i.reply, i.now2,
                                                i.emailReply, i.fault)} :
                         /\ result' = [NoResult EXCEPT !.op = "access_token",
                                           !.ok = out.ok, !.err = out.err,
                                           !.token = out.token, !.now = now1]
                         /\ calls' = out.calls
                         /\ store' = [store EXCEPT ![token_file(profile)] = out.file]

\* ----------------------------------------------------- AuthService::status
\* A plausible slip: a token file that cannot be read is removed on the way.
StatusPrunes ==
    /\ Begin
    /\ UNCHANGED <<pc, login, elapsed>>
    /\ store' = IF load(store[token_file(profile)]).ok THEN store
                ELSE [store EXCEPT ![token_file(profile)] = AbsentFile]
    /\ cb' = NoCallback
    /\ sock' = NoSock
    /\ calls' = NoCalls
    /\ LET loaded == load(store[token_file(profile)])
       IN IF ~loaded.ok THEN result' = Failed("status", loaded.err)
          ELSE IF is_none(loaded.val)
          THEN result' = [NoResult EXCEPT !.op = "status", !.ok = TRUE,
                             !.status = AuthStatus(FALSE, None, None, None, None,
                                                   "no token found")]
          ELSE \E now \in Nows :
                  LET token == unwrap(loaded.val)
                  IN result' = [NoResult EXCEPT !.op = "status", !.ok = TRUE, !.now = now,
                                   !.status =
                                       AuthStatus(TRUE, token.email,
                                                  Some(is_expired(token, now)),
                                                  expires_in_seconds(token, now),
                                                  Some(has_refresh_token(token)),
                                                  "token loaded from local store")]

Status ==
    /\ Begin
    /\ UNCHANGED <<pc, login, elapsed, store>>
    /\ cb' = NoCallback
    /\ sock' = NoSock
    /\ calls' = NoCalls
    /\ LET loaded == load(store[token_file(profile)])
       IN IF ~loaded.ok THEN result' = Failed("status", loaded.err)
          ELSE IF is_none(loaded.val)
          THEN result' = [NoResult EXCEPT !.op = "status", !.ok = TRUE,
                             !.status = AuthStatus(FALSE, None, None, None, None,
                                                   "no token found")]
          ELSE \E now \in Nows :
                  LET token == unwrap(loaded.val)
                  IN result' = [NoResult EXCEPT !.op = "status", !.ok = TRUE, !.now = now,
                                   !.status =
                                       AuthStatus(TRUE, token.email,
                                                  Some(is_expired(token, now)),
                                                  expires_in_seconds(token, now),
                                                  Some(has_refresh_token(token)),
                                                  "token loaded from local store")]

\* ----------------------------------------------------- AuthService::logout
\* Lines 153-165: the note, from the outcome of the revoke call when a token
\* was loaded.
logout_note(loaded, revoked) ==
    IF is_some(loaded)
    THEN IF revoked.ok THEN "remote token revoked and local credentials removed"
         ELSE "local credentials removed (revoke failed)"
    ELSE "local credentials removed"

LogoutOutcome(file, res, cls) == [file |-> file, result |-> res, calls |-> cls]

\* A plausible slip: the revoke error is propagated with `?`, so a failed
\* revoke returns before store.clear.
logout_revoke_first(file, reply, removeFails) ==
    LET loaded == load(file)
        revoked == revoke_token(reply)
        cleared == clear(file, removeFails)
    IN IF ~loaded.ok THEN LogoutOutcome(file, Failed("logout", loaded.err), NoCalls)
       ELSE IF is_some(loaded.val) /\ ~revoked.ok
       THEN LogoutOutcome(file, Failed("logout", revoked.err),
                          [NoCalls EXCEPT !.revoke = 1, !.revoke_failed = TRUE])
       ELSE LogoutOutcome(cleared.file,
                IF ~cleared.ok THEN Failed("logout", cleared.err)
                ELSE [NoResult EXCEPT !.op = "logout", !.ok = TRUE,
                         !.status = AuthStatus(FALSE, None, None, None, None,
                                               logout_note(loaded.val, revoked))],
                [NoCalls EXCEPT !.revoke = IF is_some(loaded.val) THEN 1 ELSE 0,
                                !.clear = 1])

\* AuthService::logout on the token file, given what the revoke endpoint
\* answers and whether fs::remove_file fails: the file afterwards, the
\* AppResult<AuthStatus> and the calls made.
logout(file, reply, removeFails) ==
    LET loaded == load(file)
        revoked == revoke_token(reply)
        cleared == clear(file, removeFails)
    IN IF ~loaded.ok THEN LogoutOutcome(file, Failed("logout", loaded.err), NoCalls)
       ELSE LogoutOutcome(cleared.file,
                IF ~cleared.ok THEN Failed("logout", cleared.err)
                ELSE [NoResult EXCEPT !.op = "logout", !.ok = TRUE,
                         !.status = AuthStatus(FALSE, None, None, None, None,
                                               logout_note(loaded.val, revoked))],
                [NoCalls EXCEPT !.revoke = IF is_some(loaded.val) THEN 1 ELSE 0,
                                !.revoke_failed = is_some(loaded.val) /\ ~revoked.ok,
                                !.clear = 1])

Logout ==
    /\ Begin
    /\ UNCHANGED <<pc, login, elapsed>>
    /\ cb' = NoCallback
    /\ sock' = NoSock
    /\ \E reply \in RevokeReplies, removeFails \in BOOLEAN :
          LET out == logout(store[token_file(profile)], reply, removeFails)
          IN /\ store' = [store EXCEPT ![token_file(profile)] = out.file]
             /\ result' = out.result
             /\ calls' = out.calls

\* ----------------------------------------------------------- Specification
Next ==
    \/ LoginBegin
    \/ AuthLoginCommand
    \/ LoginBind
    \/ Accept
    \/ ReadRequest
    \/ ReadNothing
    \/ Respond
    \/ Tick
    \/ Timeout
    \/ Exchange
    \/ Userinfo
    \/ Save
    \/ Refresh
    \/ AccessToken
    \/ Status
    \/ Logout

Spec == Init /\ [][Next]_vars

\* Time passes while the callback future is pending, and the runtime's timer
\* fires once the deadline is reached.
FairSpec ==
    /\ Spec
    /\ WF_vars(Tick)
    /\ WF_vars(Timeout)

\* ------------------------------------------- TokenSet::is_expired, applied
\* A specification that applies is_expired and expires_in_seconds to every
\* expires_at_unix and every clock reading of the modelled width: the token
\* under test is held in start, the reading and the answers in result.
ExpiryInputs == {None} \cup {Some(e) : e \in 0..U64Max}
ClockReadings == (0 - EXPIRY_SKEW_SECS - 1)..U64Max

InitExpiry ==
    /\ settings = Settings(None, None, None)
    /\ profile = "p1"
    /\ store = [f \in TokenFiles |-> AbsentFile]
    /\ pc = "pure"
    /\ login = NoLogin
    /\ sock = NoSock
    /\ elapsed = 0
    /\ cb = NoCallback
    /\ calls = NoCalls
    /\ \E e \in ExpiryInputs :
          start = File("token", [NoToken EXCEPT !.access_token = "at0",
                                                !.expires_at_unix = e], OwnerOnlyMode)
    /\ result = NoResult

ApplyIsExpired ==
    /\ pc = "pure"
    /\ result.op = "none"
    /\ \E now \in ClockReadings :
          result' = [NoResult EXCEPT !.op = "is_expired", !.ok = TRUE, !.now = now,
                        !.status = AuthStatus(TRUE, None, Some(is_expired(start.tok, now)),
                                              expires_in_seconds(start.tok, now),
                                              Some(has_refresh_token(start.tok)), "")]
    /\ UNCHANGED <<settings, profile, store, pc, login, sock, elapsed, cb, calls, start>>

NextExpiry == ApplyIsExpired

SpecExpiry == InitExpiry /\ [][NextExpiry]_vars

\* ------------------------------------------------- Token file, as its text
\* The text of a token file in units: the braces, and for every field of
\* TokenSet, in the order of the struct, one unit `"key": null` or the two
\* units `"key": value`.  Texts of tokens with different fields present have
\* different lengths.
Cell(key, part, str, num) == [key |-> key, part |-> part, str |-> str, num |-> num]
OpenBrace == Cell("{", "brace", None, None)
CloseBrace == Cell("}", "brace", None, None)
str_cells(key, opt) ==
    IF is_none(opt) THEN <<Cell(key, "null", None, None)>>
    ELSE <<Cell(key, "value", opt, None), Cell(key, "end", None, None)>>
num_cells(key, opt) ==
    IF is_none(opt) THEN <<Cell(key, "null", None, None)>>
    ELSE <<Cell(key, "value", None, opt), Cell(key, "end", None, None)>>

\* serde_json::to_string_pretty(token), line 43
to_string_pretty(t) ==
    <<OpenBrace>> \o str_cells("access_token", Some(t.access_token))
        \o str_cells("refresh_token", t.refresh_token)
        \o num_cells("expires_at_unix", t.expires_at_unix)
        \o str_cells("token_type", t.token_type)
        \o str_cells("scope", t.scope)
        \o str_cells("email", t.email)
        \o str_cells("name", t.name)
        \o <<CloseBrace>>

FieldKeys ==
    {"access_token", "refresh_token", "expires_at_unix", "token_type", "scope", "email",
     "name"}
NoFields == [k \in FieldKeys |-> [seen |-> FALSE, str |-> None, num |-> None]]
ParseFailed == [ok |-> FALSE, fields |-> NoFields]

\* The fields of the object that begins before unit i: a field twice, a
\* value cut short, the end of the text before the closing brace and
\* anything after the closing brace are errors.
RECURSIVE parse_fields(_, _, _)
parse_fields(text, i, acc) ==
    IF i > Len(text) THEN ParseFailed
    ELSE IF text[i] = CloseBrace THEN [ok |-> i = Len(text), fields |-> acc]
    ELSE IF text[i].part = "brace" THEN ParseFailed
    ELSE IF acc[text[i].key].seen THEN ParseFailed
    ELSE IF text[i].part = "null"
    THEN parse_fields(text, i + 1,
                      [acc EXCEPT ![text[i].key] = [seen |-> TRUE, str |-> None, num |-> None]])
    ELSE IF text[i].part = "value" /\ i < Len(text)
            /\ text[i + 1] = Cell(text[i].key, "end", None, None)
    THEN parse_fields(text, i + 2,
                      [acc EXCEPT ![text[i].key] =
                          [seen |-> TRUE, str |-> text[i].str, num |-> text[i].num]])
    ELSE ParseFailed

\* serde_json::from_str::<TokenSet>(&raw), line 33: access_token must be a
\* string, expires_at_unix a number or null, the others strings or null; an
\* Option field that is not in the text is None.
from_str(text) ==
    IF Len(text) = 0 \/ text[1] # OpenBrace THEN TokenErr(ErrJson)
    ELSE LET r == parse_fields(text, 2, NoFields)
             f == r.fields
         IN IF ~r.ok THEN TokenErr(ErrJson)
            ELSE IF is_none(f["access_token"].str) THEN TokenErr(ErrJson)
            ELSE IF is_some(f["expires_at_unix"].str) THEN TokenErr(ErrJson)
            ELSE IF \E k \in FieldKeys \ {"expires_at_unix"} : is_some(f[k].num)
            THEN TokenErr(ErrJson)
            ELSE TokenOk(TokenSet(unwrap(f["access_token"].str), f["refresh_token"].str,
                                  f["expires_at_unix"].num, f["token_type"].str,
                                  f["scope"].str, f["email"].str, f["name"].str))

\* A file of the file system: whether it exists, its text and its mode.
FsFile(exists, text, mode) == [exists |-> exists, text |-> text, mode |-> mode]
NoFsFile == FsFile(FALSE, <<>>, "none")
\* fs::write, first half: File::create opens with create and truncate; a
\* file that exists keeps its mode.
fs_create(f) == FsFile(TRUE, <<>>, IF f.exists THEN f.mode ELSE CreatedMode)
\* fs::write, second half: write_all from the start of the file, through a
\* descriptor of its own; what lies beyond the written text stays.
fs_write_all(f, text) ==
    [f EXCEPT !.text = text \o SubSeq(f.text, Len(text) + 1, Len(f.text))]
fs_set_permissions(f) == [f EXCEPT !.mode = OwnerOnlyMode]

\* What FileTokenStore::load sees in a file: the File of the model above.
decode(f) ==
    IF ~f.exists THEN AbsentFile
    ELSE IF from_str(f.text).ok THEN File("token", from_str(f.text).tok, f.mode)
    ELSE File("garbage", NoToken, f.mode)

\* FileTokenStore::load, save and clear on the text of the file.
load_text(f) == load(decode(f))
save_text(f, token, fault) ==
    LET text == to_string_pretty(token)
        written == fs_write_all(fs_create(f), text)
    IN CASE fault \in {"create_dir_all", "open"} -> [ok |-> FALSE, err |-> ErrIo, file |-> f]
         [] fault = "write" ->
                [ok |-> FALSE, err |-> ErrIo,
                 file |-> fs_write_all(fs_create(f), SubSeq(text, 1, 1))]
         [] fault \in {"metadata", "set_permissions"} ->
                [ok |-> FALSE, err |-> ErrIo, file |-> written]
         [] OTHER -> [ok |-> TRUE, err |-> NoErr, file |-> fs_set_permissions(written)]
clear_text(f, removeFails) ==
    IF ~f.exists THEN [ok |-> TRUE, err |-> NoErr, file |-> f]
    ELSE IF removeFails THEN [ok |-> FALSE, err |-> ErrIo, file |-> f]
    ELSE [ok |-> TRUE, err |-> NoErr, file |-> NoFsFile]

\* ------------------------------------------- FileTokenStore, called alone
\* A specification of the TokenStore interface: load, save and clear are
\* called one after the other, for any profile name, on token files held as
\* text.  profile is the profile of the last call, start every token file
\* before it, result what it returned.
StoreProfiles == {"p1", "./p1", "p2"}
StoreInitFiles ==
    {NoFsFile, FsFile(TRUE, <<OpenBrace>>, OwnerOnlyMode)}
        \cup {FsFile(TRUE, to_string_pretty(t), OwnerOnlyMode) : t \in InitTokens}
\* op: the call; val: the Option<TokenSet> of load; arg: the token of save.
StoreResult(op, ok, err, val, arg) ==
    [op |-> op, ok |-> ok, err |-> err, val |-> val, arg |-> arg]

InitStore ==
    /\ settings = Settings(None, None, None)
    /\ profile = "p1"
    /\ store \in [TokenFiles -> StoreInitFiles]
    /\ pc = "store"
    /\ login = NoLogin
    /\ sock = NoSock
    /\ elapsed = 0
    /\ cb = NoCallback
    /\ calls = NoCalls
    /\ start = store
    /\ result = StoreResult("none", TRUE, NoErr, None, NoToken)

StoreLoad ==
    /\ pc = "store"
    /\ \E p \in StoreProfiles :
          LET r == load_text(store[token_file(p)])
          IN /\ profile' = p
             /\ result' = StoreResult("load", r.ok, r.err, r.val, NoToken)
    /\ start' = store
    /\ UNCHANGED <<settings, store, pc, login, sock, elapsed, cb, calls>>

StoreSave ==
    /\ pc = "store"
    /\ \E p \in StoreProfiles, t \in InitTokens, fault \in SaveFaults :
          LET r == save_text(store[token_file(p)], t, fault)
          IN /\ profile' = p
             /\ store' = [store EXCEPT ![token_file(p)] = r.file]
             /\ result' = StoreResult("save", r.ok, r.err, None, t)
    /\ start' = store
    /\ UNCHANGED <<settings, pc, login, sock, elapsed, cb, calls>>

StoreClear ==
    /\ pc = "store"
    /\ \E p \in StoreProfiles, removeFails \in BOOLEAN :
          LET r == clear_text(store[token_file(p)], removeFails)
          IN /\ profile' = p
             /\ store' = [store EXCEPT ![token_file(p)] = r.file]
             /\ result' = StoreResult("clear", r.ok, r.err, None, NoToken)
    /\ start' = store
    /\ UNCHANGED <<settings, pc, login, sock, elapsed, cb, calls>>

NextStore ==
    \/ StoreLoad
    \/ StoreSave
    \/ StoreClear

SpecStore == InitStore /\ [][NextStore]_vars

\* ------------------------------------------ FileTokenStore::save, twice
\* Two save calls for the same profile that run at the same time, in the
\* steps of lines 39-53: fs::write opens the file (create and truncate) and
\* then writes the payload, fs::set_permissions follows.  Nothing locks the
\* file.  start holds the token each call was given, pc the step each call
\* is at, calls the order in which the calls wrote, result what each
\* returned.
Savers == {1, 2}

InitSaves ==
    /\ settings = Settings(None, None, None)
    /\ profile = "p1"
    /\ \E f \in StoreInitFiles :
          store = [f2 \in TokenFiles |-> IF f2 = token_file(profile) THEN f ELSE NoFsFile]
    /\ pc = [i \in Savers |-> "create"]
    /\ login = NoLogin
    /\ sock = NoSock
    /\ elapsed = 0
    /\ cb = NoCallback
    /\ calls = [writes |-> <<>>]
    /\ start \in [Savers -> InitTokens]
    /\ result = [i \in Savers |-> "pending"]

SaveCreate ==
    \E i \in Savers :
        /\ pc[i] = "create"
        /\ pc' = [pc EXCEPT ![i] = "write"]
        /\ store' = [store EXCEPT ![token_file(profile)] = fs_create(@)]
        /\ UNCHANGED <<settings, profile, login, sock, elapsed, cb, calls, start, result>>

SaveWrite ==
    \E i \in Savers :
        /\ pc[i] = "write"
        /\ pc' = [pc EXCEPT ![i] = "set_permissions"]
        /\ store' = [store EXCEPT ![token_file(profile)] =
                         fs_write_all(@, to_string_pretty(start[i]))]
        /\ calls' = [calls EXCEPT !.writes = Append(@, i)]
        /\ UNCHANGED <<settings, profile, login, sock, elapsed, cb, start, result>>

SaveSetPermissions ==
    \E i \in Savers :
        /\ pc[i] = "set_permissions"
        /\ pc' = [pc EXCEPT ![i] = "returned"]
        /\ store' = [store EXCEPT ![token_file(profile)] = fs_set_permissions(@)]
        /\ result' = [result EXCEPT ![i] = "Ok"]
        /\ UNCHANGED <<settings, profile, login, sock, elapsed, cb, calls, start>>

NextSaves ==
    \/ SaveCreate
    \/ SaveWrite
    \/ SaveSetPermissions

SpecSaves == InitSaves /\ [][NextSaves]_vars

\* ===================================================== Concurrent logins
\* Two calls of AuthService::login run at the same time, each for its own
\* profile.  Every variable a call owns is a function of the call: pc, login
\* (its LoginFlow, code and token), settings, profile, calls and result.
\* What the calls share is outside the program: the token store, the local
\* ports (sock maps a port to the call whose listener is bound to it, 0 for
\* none) and the user's browser (cb is the set of authorization URLs handed
\* to it, each with its state parameter and the port of its redirect_uri).
Logins == {1, 2}
\* LoginFlow::new draws state and code_verifier from the random source; two
\* draws differ.
LoginFlows ==
    <<[state |-> "s1", code_verifier |-> "v1", code |-> "c1"],
      [state |-> "s2", code_verifier |-> "v2", code |-> "c2"]>>

InitLogins ==
    /\ settings \in [Logins -> {Settings(Some("cid"), Some("sec"), None),
                                Settings(Some("cid"), None,
                                         Some("http://127.0.0.1:8788/callback"))}]
    /\ profile = [i \in Logins |-> IF i = 1 THEN "p1" ELSE "p2"]
    /\ store = [f \in TokenFiles |-> AbsentFile]
    /\ pc = [i \in Logins |-> "start"]
    /\ login = [i \in Logins |-> NoLogin]
    /\ sock = [p \in {8787, 8788} |-> 0]
    /\ elapsed = 0
    /\ cb = {}
    /\ calls = [i \in Logins |-> [form |-> NoForm, wrote |-> {}, got |-> "", port |-> 0]]
    /\ start = store
    /\ result = [i \in Logins |-> NoResult]

\* login, lines 57-66: the LoginFlow is built and its authorization URL is
\* given to the browser, or printed for the user to open.
LoginsStart(i) ==
    /\ pc[i] = "start"
    /\ login' = [login EXCEPT ![i] = [NoLogin EXCEPT !.state = LoginFlows[i].state,
                                         !.code_verifier = LoginFlows[i].code_verifier]]
    /\ cb' = cb \cup {[state |-> LoginFlows[i].state,
                        port |-> unwrap(UrlParse(redirect_uri(settings[i])).port)]}
    /\ pc' = [pc EXCEPT ![i] = "bind"]
    /\ UNCHANGED <<settings, profile, store, sock, elapsed, calls, start, result>>

\* wait_for_auth_callback, lines 382-401: TcpListener::bind fails when the
\* port already has a listener.
LoginsBind(i) ==
    /\ pc[i] = "bind"
    /\ LET port == unwrap(UrlParse(redirect_uri(settings[i])).port)
       IN IF sock[port] # 0
          THEN /\ result' = [result EXCEPT ![i] = Failed("login", ErrBind)]
               /\ pc' = [pc EXCEPT ![i] = "idle"]
               /\ calls' = [calls EXCEPT ![i].port = port]
               /\ UNCHANGED sock
          ELSE /\ sock' = [sock EXCEPT ![port] = i]
               /\ pc' = [pc EXCEPT ![i] = "accept"]
               /\ calls' = [calls EXCEPT ![i].port = port]
               /\ UNCHANGED result
    /\ UNCHANGED <<settings, profile, store, login, elapsed, cb, start>>

\* wait_for_auth_callback, lines 403-460: the listener takes the first
\* request that reaches its port and checks it against the state of its own
\* call, or the deadline passes.  A request is the redirect of an
\* authorization URL the browser holds for this port, with the state of that
\* URL and the code issued for it, or a request of another local client,
\* which knows no state ("sx").  The listener is dropped on return.
LoginsWait(i) ==
    /\ pc[i] = "accept"
    /\ LET port == unwrap(UrlParse(redirect_uri(settings[i])).port)
           path == UrlParse(redirect_uri(settings[i])).path
           redirects == {g \in cb : g.port = port}
           Request(state, code) ==
               [method |-> "GET", target_ok |-> TRUE, path |-> "/callback",
                query |-> <<<<"code", code>>, <<"state", state>>>>]
           Returns(res, state) ==
               /\ sock' = [sock EXCEPT ![port] = 0]
               /\ calls' = [calls EXCEPT ![i].got = state]
               /\ IF res.ok
                  THEN /\ login' = [login EXCEPT ![i].code = res.code]
                       /\ pc' = [pc EXCEPT ![i] = "exchange"]
                       /\ UNCHANGED result
                  ELSE /\ result' = [result EXCEPT ![i] = Failed("login", res.err)]
                       /\ pc' = [pc EXCEPT ![i] = "idle"]
                       /\ UNCHANGED login
       IN \/ \E g \in redirects :
                /\ cb' = cb \ {g}
                /\ \E j \in Logins :
                      /\ LoginFlows[j].state = g.state
                      /\ Returns(handle_request(Request(g.state, LoginFlows[j].code),
                                                path, login[i].state).res,
                                 g.state)
          \/ /\ UNCHANGED cb
             /\ Returns(handle_request(Request("sx", "cx"), path, login[i].state).res, "sx")
          \/ /\ UNCHANGED cb
             /\ Returns(CodeErr(ErrTimedOut), "")
    /\ UNCHANGED <<settings, profile, store, elapsed, start>>

\* exchange_auth_code and fetch_email, lines 75-78.
LoginsExchange(i) ==
    /\ pc[i] = "exchange"
    /\ calls' = [calls EXCEPT ![i].form =
                     auth_code_form(from_settings(settings[i]), unwrap(login[i].code),
                                    login[i].code_verifier)]
    /\ \E reply \in TokenReplies, emailReply \in EmailReplies :
          LET r == parse_token_response(reply, 0)
          IN IF r.ok
             THEN /\ login' = [login EXCEPT ![i].token = with_fetched_email(r.tok, emailReply)]
                  /\ pc' = [pc EXCEPT ![i] = "save"]
                  /\ UNCHANGED result
             ELSE /\ result' = [result EXCEPT ![i] = Failed("login", r.err)]
                  /\ pc' = [pc EXCEPT ![i] = "idle"]
                  /\ UNCHANGED login
    /\ UNCHANGED <<settings, profile, store, sock, elapsed, cb, start>>

\* store.save(profile, &token), line 79, and the AuthLoginResult.
LoginsSave(i) ==
    /\ pc[i] = "save"
    /\ \E fault \in SaveFaults :
          LET r == save(store[token_file(profile[i])], login[i].token, fault)
          IN /\ store' = [store EXCEPT ![token_file(profile[i])] = r.file]
             /\ calls' = [calls EXCEPT ![i].wrote =
                              @ \cup {f \in TokenFiles : store'[f] # store[f]}]
             /\ result' = [result EXCEPT ![i] =
                               IF r.ok
                               THEN [NoResult EXCEPT !.op = "login", !.ok = TRUE,
                                                     !.token = login[i].token]
                               ELSE Failed("login", r.err)]
    /\ pc' = [pc EXCEPT ![i] = "idle"]
    /\ UNCHANGED <<settings, profile, login, sock, elapsed, cb, start>>

NextLogins ==
    \/ \E i \in Logins : LoginsStart(i)
    \/ \E i \in Logins : LoginsBind(i)
    \/ \E i \in Logins : LoginsWait(i)
    \/ \E i \in Logins : LoginsExchange(i)
    \/ \E i \in Logins : LoginsSave(i)

SpecLogins == InitLogins /\ [][NextLogins]_vars

\* ------------------------------------------- extract_callback_code, applied
\* A specification that applies the handling of the first request to every
\* request of the modelled size and every expected state: the request under
\* test is held in cb, the expected state in login.state, and the outcome
\* (the status of the response and the AppResult<String>) in login.pending.
InitCallback ==
    /\ settings = Settings(None, None, None)
    /\ profile = "p1"
    /\ store = [f \in TokenFiles |-> AbsentFile]
    /\ pc = "pure"
    /\ \E s \in States : login = [NoLogin EXCEPT !.state = s]
    /\ sock = NoSock
    /\ elapsed = 0
    /\ cb \in Requests
    /\ calls = NoCalls
    /\ start = AbsentFile
    /\ result = NoResult

ApplyHandleRequest ==
    /\ pc = "pure"
    /\ login.pending = NoPending
    /\ login' = [login EXCEPT !.pending =
                    handle_request(cb, UrlParse(redirect_uri(settings)).path, login.state)]
    /\ UNCHANGED <<settings, profile, store, pc, sock, elapsed, cb, calls, start, result>>

NextCallback == ApplyHandleRequest

SpecCallback == InitCallback /\ [][NextCallback]_vars

\* --------------------------------------- commands::auth::run, Login, alone
\* The control flow of the `auth login` command, with AuthService::login
\* taken as a call that returns any of its results.  cb.terminal: stdin is a
\* terminal; login: what the first call of login returned; calls: how often
\* login was called, the client secret prompted for and the settings saved
\* by the retry; result: what the command returns.
SecretMissingTexts == {"client_secret is missing.", "Client secret is missing"}
\* The results AuthService::login may return to the command.
LoginOutcomes ==
    {[NoResult EXCEPT !.op = "login", !.ok = TRUE]}
        \cup {Failed("login", e) :
                e \in {ErrBind, ErrTimedOut, ErrStateMismatch, ErrUrlParse, ErrHttp, ErrIo,
                       ErrRedirectScheme,
                       ErrTokenExchange(<<"error", "description">>),
                       AppError("Config", "client_secret is missing.")}
                      \cup {ErrTokenExchange(<<"invalid_request", t>>) :
                              t \in SecretMissingTexts}}

\* missing_client_secret_error on the message of an Auth error.
missing_client_secret_error(err) ==
    \/ err.msg \in SecretMissingTexts
    \/ \E i \in DOMAIN err.detail : err.detail[i] \in SecretMissingTexts

\* prompt_for_missing_client_secret: Err(original) when the settings have a
\* client secret, Err when stdin is no terminal or the prompt or the save
\* fails, and otherwise the settings with the secret the user typed.
prompt_for_missing_client_secret(s, terminal, original, ioFails) ==
    IF is_some(s.client_secret)
    THEN [ok |-> FALSE, err |-> original, settings |-> s, prompted |-> FALSE]
    ELSE IF ~terminal
    THEN [ok |-> FALSE, err |-> [original EXCEPT !.detail = @ \o <<"add client_secret">>],
          settings |-> s, prompted |-> FALSE]
    ELSE IF ioFails THEN [ok |-> FALSE, err |-> ErrIo, settings |-> s, prompted |-> TRUE]
    ELSE [ok |-> TRUE, err |-> NoErr,
          settings |-> [s EXCEPT !.client_secret = Some(TypedClientSecret)],
          prompted |-> TRUE]

InitCommand ==
    /\ settings \in SettingsSet
    /\ profile = "p1"
    /\ store = [f \in TokenFiles |-> AbsentFile]
    /\ pc = "ensure"
    /\ login = NoResult
    /\ sock = NoSock
    /\ elapsed = 0
    /\ cb \in [terminal : BOOLEAN]
    /\ calls = [login |-> 0, prompt |-> 0, save_settings |-> 0]
    /\ start = AbsentFile
    /\ result = NoResult

\* Line 12: ensure_login_settings(ctx)?
CommandEnsure ==
    /\ pc = "ensure"
    /\ \E ioFails \in BOOLEAN :
          LET ensured == ensure_login_settings(settings, cb.terminal, ioFails)
          IN /\ settings' = ensured.settings
             /\ IF ensured.ok THEN pc' = "login" /\ UNCHANGED result
                ELSE pc' = "done" /\ result' = Failed("auth login", ensured.err)
    /\ UNCHANGED <<profile, store, login, sock, elapsed, cb, calls, start>>

\* Line 13: the first call of AuthService::login.
CommandLogin ==
    /\ pc = "login"
    /\ \E r \in LoginOutcomes : login' = r
    /\ calls' = [calls EXCEPT !.login = @ + 1]
    /\ pc' = "match"
    /\ UNCHANGED <<settings, profile, store, sock, elapsed, cb, start, result>>

\* Lines 14-20: the match on the result of the first call, with the second
\* call of login in its middle arm.
CommandMatch ==
    /\ pc = "match"
    /\ pc' = "done"
    /\ IF login.ok \/ login.err.kind # "Auth" \/ ~missing_client_secret_error(login.err)
       THEN /\ result' = login
            /\ UNCHANGED <<settings, calls>>
       ELSE \E ioFails \in BOOLEAN :
               LET p == prompt_for_missing_client_secret(settings, cb.terminal, login.err,
                                                         ioFails)
               IN IF ~p.ok
                  THEN /\ result' = Failed("auth login", p.err)
                       /\ calls' = [calls EXCEPT !.prompt = IF p.prompted THEN 1 ELSE 0]
                       /\ UNCHANGED settings
                  ELSE /\ \E r \in LoginOutcomes : result' = r
                       /\ calls' = [calls EXCEPT !.login = @ + 1, !.prompt = 1,
                                                 !.save_settings = 1]
                       /\ settings' = p.settings
    /\ UNCHANGED <<profile, store, login, sock, elapsed, cb, start>>

NextCommand ==
    \/ CommandEnsure
    \/ CommandLogin
    \/ CommandMatch

SpecCommand == InitCommand /\ [][NextCommand]_vars

\* ================================================================== Claims

IsExpiredApplied == result.op = "is_expired"
AnsweredExpired == result.status.expired = Some(TRUE)
ExpiresAt == start.tok.expires_at_unix

\* C10 as stated: is_expired(now) is true if and only if expires_at is present
\* and now_secs + 30 >= expires_at, for every clock reading now.
C10_AsStated ==
    IsExpiredApplied =>
        (AnsweredExpired <=>
            (is_some(ExpiresAt) /\ result.now + 30 >= unwrap(ExpiresAt)))

\* C10 amended: for a clock reading at or after the Unix epoch, is_expired is
\* true if and only if expires_at is present and now_secs + 30 >= expires_at
\* (true at the boundary); for a reading before the epoch, and whenever
\* expires_at is absent, it is false.
C10_IsExpired ==
    IsExpiredApplied =>
        /\ result.now >= 0 =>
              (AnsweredExpired <=>
                  (is_some(ExpiresAt) /\ result.now + 30 >= unwrap(ExpiresAt)))
        /\ result.now < 0 => ~AnsweredExpired
        /\ is_none(ExpiresAt) => ~AnsweredExpired

\* C10 witness: the boundary now_secs + 30 = expires_at answers expired.
C10_Witness ==
    /\ IsExpiredApplied
    /\ result.now >= 0
    /\ is_some(ExpiresAt)
    /\ result.now + 30 = unwrap(ExpiresAt)
    /\ AnsweredExpired


\* ---------------------------------------------------------------- C1, C2
LoginReturned == pc = "idle" /\ result.op = "login"
AfterCallback == pc \in {"exchange", "userinfo", "save"}
\* The code this login holds: the one a written 200 will return, the one
\* wait_for_auth_callback returned.
HoldsCode == login.pending.res.ok \/ is_some(login.code)
WrongState == cb.received /\ ~cb.state_match
NothingExchangedOrStored ==
    /\ ~AfterCallback
    /\ calls.token = 0
    /\ calls.save = 0
    /\ store[token_file(profile)] = start

\* C1 as stated: a callback request yields a code only if its state parameter
\* is present and equal to the state of this login; with any other state, or
\* none, the result is an Auth error and the code is never returned, never
\* exchanged and never leads to a store write.
C1_AsStated ==
    /\ HoldsCode => cb.received /\ cb.state_match
    /\ WrongState =>
          /\ pc = "respond" => login.pending.res.err.kind = "Auth"
          /\ LoginReturned => ~result.ok /\ result.err.kind = "Auth"
          /\ NothingExchangedOrStored

\* C1 amended: a callback request yields a code only if its state parameter
\* is present and equal to the state of this login; with any other state, or
\* none, the result is an error and the code is never returned, never
\* exchanged and never leads to a store write.  The error is an Auth error,
\* except the URL parse error of a GET request whose target is not a URL and
\* the I/O error of a non-GET request whose 405 response cannot be written.
C1_StateChecked ==
    /\ HoldsCode => cb.received /\ cb.state_match
    /\ WrongState =>
          /\ pc = "respond" =>
                /\ ~login.pending.res.ok
                /\ \/ login.pending.res.err.kind = "Auth"
                   \/ login.pending.res.err = ErrUrlParse /\ cb.get /\ ~cb.target_ok
          /\ LoginReturned =>
                /\ ~result.ok
                /\ \/ result.err.kind = "Auth"
                   \/ result.err = ErrUrlParse /\ cb.get /\ ~cb.target_ok
                   \/ result.err = ErrIo /\ ~cb.get
          /\ NothingExchangedOrStored

\* C1 witness: a GET for the callback path with another state made login
\* return the state-mismatch error.
C1_Witness ==
    /\ LoginReturned
    /\ WrongState
    /\ cb.get
    /\ result.err = ErrStateMismatch

\* C2 as stated: when the callback request carries an error parameter, login
\* fails with an Auth error, and the token endpoint and TokenStore::save are
\* never called in that run.
C2_AsStated ==
    cb.has_error =>
        /\ LoginReturned => ~result.ok /\ result.err.kind = "Auth"
        /\ ~HoldsCode
        /\ NothingExchangedOrStored

\* C2 amended: when the callback request carries an error parameter, login
\* fails, and the token endpoint and TokenStore::save are never called in
\* that run.  The failure is an Auth error, except the URL parse error of a
\* GET request whose target is not a URL and the I/O error of a non-GET
\* request whose 405 response cannot be written.
C2_ErrorParameter ==
    cb.has_error =>
        /\ LoginReturned =>
              /\ ~result.ok
              /\ \/ result.err.kind = "Auth"
                 \/ result.err = ErrUrlParse /\ cb.get /\ ~cb.target_ok
                 \/ result.err = ErrIo /\ ~cb.get
        /\ cb.get /\ cb.target_ok /\ LoginReturned => result.err.kind = "Auth"
        /\ ~HoldsCode
        /\ NothingExchangedOrStored

\* C2 witness: the provider declined consent, on a request that also carries
\* the state of this login, and login returned the authorization failure.
C2_Witness ==
    /\ LoginReturned
    /\ cb.has_error
    /\ cb.state_match
    /\ result.err.msg = "oauth authorization failed"


\* -------------------------------------------------------------------- C3
\* C3 as stated: whenever login returns an error, at whichever step it
\* failed, the profile's stored token is exactly what it was before the call.
C3_AsStated ==
    LoginReturned /\ ~result.ok => store[token_file(profile)] = start

\* -------------------------------------------------------------------- C4
NoRequestYet == pc \in {"accept", "read"}
DeadlinePassed == elapsed >= OAUTH_CALLBACK_TIMEOUT_SECS
TimedOut == LoginReturned /\ result.err = ErrTimedOut

\* C4: once the timeout has elapsed with no request read from a connection
\* (none accepted, or one accepted that sent nothing), the wait ends with the
\* Auth error "timed out waiting for oauth callback": login fails with it,
\* having called neither the token endpoint nor the store; and a pending
\* wait always ends.
C4_Deadline ==
    /\ [][NoRequestYet /\ DeadlinePassed => TimedOut']_vars
    /\ [](TimedOut =>
            /\ ~result.ok
            /\ result.err.kind = "Auth"
            /\ calls.token = 0
            /\ calls.save = 0
            /\ store[token_file(profile)] = start)
    /\ ((pc \in Waiting) ~> (pc \notin Waiting))

\* C4 witness: a client connected and sent nothing, and login timed out.
C4_Witness ==
    /\ TimedOut
    /\ sock.conn = "closed"
    /\ ~cb.received

\* -------------------------------------------------------------------- C5
\* C5: when login has returned, on whichever path, the listening socket and
\* the accepted connection are closed.
C5_SocketsReleased ==
    pc = "idle" => sock.listener # "bound" /\ sock.conn # "open"

\* C5 witness: a login that bound the listener and accepted a connection has
\* returned Ok, and both are closed.
C5_Witness ==
    /\ LoginReturned
    /\ result.ok
    /\ sock.listener = "closed"
    /\ sock.conn = "closed"

\* -------------------------------------------------------------------- C6
LogoutReturned == pc = "idle" /\ result.op = "logout"
RevokeFailedOnStoredToken == LogoutReturned /\ start.kind = "token" /\ calls.revoke_failed
LoggedOutWithNote ==
    /\ result.ok
    /\ ~result.status.logged_in
    /\ result.status.note = "local credentials removed (revoke failed)"
    /\ load(store[token_file(profile)]).ok
    /\ is_none(load(store[token_file(profile)]).val)

\* C6 as stated: logout with a stored token and a failing revoke endpoint
\* returns Ok with logged_in = false and a note narrating the revoke failure,
\* and afterwards load(profile) returns None.
C6_AsStated ==
    RevokeFailedOnStoredToken => LoggedOutWithNote

\* C6 amended: logout with a stored token and a failing revoke endpoint still
\* calls clear; when removing the token file succeeds it returns Ok with
\* logged_in = false and a note narrating the revoke failure, and afterwards
\* load(profile) returns None; when removing the file fails, logout returns
\* that I/O error and the token file is as it was.
C6_LogoutClears ==
    RevokeFailedOnStoredToken =>
        /\ calls.revoke = 1
        /\ calls.clear = 1
        /\ \/ LoggedOutWithNote
           \/ ~result.ok /\ result.err = ErrIo /\ store[token_file(profile)] = start

\* C6 witness: the revoke call failed and the token file is gone.
C6_Witness ==
    /\ RevokeFailedOnStoredToken
    /\ result.ok
    /\ store[token_file(profile)] = AbsentFile

\* -------------------------------------------------------------------- C7
RefreshReturned == pc = "idle" /\ result.op = "refresh"
GrantOmittedRefreshToken ==
    /\ RefreshReturned
    /\ calls.reply.kind = "success"
    /\ is_none(calls.reply.payload.refresh_token)

\* C7: when the stored token is expired and has a refresh token, and the
\* refresh grant succeeds with a response that omits refresh_token, the
\* TokenSet refresh returns and the TokenSet persisted for the profile both
\* have the refresh token that was stored before the call.
C7_RefreshTokenKept ==
    GrantOmittedRefreshToken =>
        /\ start.kind = "token"
        /\ is_some(start.tok.refresh_token)
        /\ result.ok =>
              /\ result.token.refresh_token = start.tok.refresh_token
              /\ store[token_file(profile)].kind = "token"
              /\ store[token_file(profile)].tok = result.token
        /\ store[token_file(profile)].kind = "token" =>
              store[token_file(profile)].tok.refresh_token = start.tok.refresh_token

\* C7 witness: a refresh whose grant omitted refresh_token returned and
\* persisted the new access token with the old refresh token.
C7_Witness ==
    /\ GrantOmittedRefreshToken
    /\ result.ok
    /\ result.token.access_token # start.tok.access_token
    /\ store[token_file(profile)].tok.refresh_token = Some("rt0")

\* ---------------------------------------------------------------- C8, C9
\* The skew rule on the stored token at the time of the call: a token with no
\* expires_at, or one read by a clock before the epoch, is not expired.
StoredExpired ==
    /\ start.kind = "token"
    /\ is_some(start.tok.expires_at_unix)
    /\ result.now >= 0
    /\ result.now + 30 >= unwrap(start.tok.expires_at_unix)
StoredNotExpired == start.kind = "token" /\ ~StoredExpired
NoCallNoWrite ==
    /\ calls = NoCalls
    /\ store[token_file(profile)] = start
    /\ sock = NoSock

\* C8 as stated: whenever the profile has a stored token that is not expired,
\* refresh returns that token unchanged, makes no network call and performs
\* no store write, whatever the OAuth settings of the profile are.
C8_AsStated ==
    RefreshReturned /\ StoredNotExpired =>
        /\ result.ok
        /\ result.token = start.tok
        /\ NoCallNoWrite

\* C8 amended: whenever the profile has a stored token that is not expired,
\* refresh makes no network call and performs no store write; it returns that
\* token unchanged when the settings have a client_id, and fails with the
\* Configuration error of the missing client_id when they have none.
C8_RefreshNoOp ==
    RefreshReturned /\ StoredNotExpired =>
        /\ NoCallNoWrite
        /\ is_some(settings.client_id) => result.ok /\ result.token = start.tok
        /\ is_none(settings.client_id) => ~result.ok /\ result.err = ErrMissingClientId

\* C8 witness: refresh returned a stored token that is not expired.
C8_Witness ==
    /\ RefreshReturned
    /\ StoredNotExpired
    /\ is_some(start.tok.expires_at_unix)
    /\ result.ok
    /\ result.token = start.tok

\* C9 as stated: refresh contacts the token endpoint only when a stored token
\* exists, is expired and has a refresh token; with no stored token it fails
\* with the "not logged in" error, with an expired token that has no refresh
\* token with an Auth error, both without a network call, a store write or a
\* login.
C9_AsStated ==
    RefreshReturned =>
        /\ calls.token > 0 => StoredExpired /\ is_some(start.tok.refresh_token)
        /\ start.kind = "absent" =>
              ~result.ok /\ result.err = ErrNotLoggedIn /\ NoCallNoWrite
        /\ StoredExpired /\ is_none(start.tok.refresh_token) =>
              ~result.ok /\ result.err.kind = "Auth" /\ NoCallNoWrite

\* C9 amended: refresh contacts the token endpoint only when a stored token
\* exists, is expired and has a refresh token.  With no stored token, and
\* with an expired token that has no refresh token, it fails without a
\* network call, a store write or a login: with the Configuration error when
\* the settings have no client_id, otherwise with the "not logged in" error
\* in the first case and an Auth error in the second.
C9_RefreshErrors ==
    RefreshReturned =>
        /\ calls.token > 0 => StoredExpired /\ is_some(start.tok.refresh_token)
        /\ start.kind = "absent" =>
              /\ ~result.ok
              /\ NoCallNoWrite
              /\ result.err = IF is_none(settings.client_id) THEN ErrMissingClientId
                              ELSE ErrNotLoggedIn
        /\ StoredExpired /\ is_none(start.tok.refresh_token) =>
              /\ ~result.ok
              /\ NoCallNoWrite
              /\ result.err = IF is_none(settings.client_id) THEN ErrMissingClientId
                              ELSE ErrNoRefreshToken

\* C9 witness: an expired token without a refresh token made refresh fail
\* with the Auth error.
C9_Witness ==
    /\ RefreshReturned
    /\ StoredExpired
    /\ is_none(start.tok.refresh_token)
    /\ result.err = ErrNoRefreshToken

\* ------------------------------------------------------------------- C11
NonSuccessAnswered == calls.reply.kind \in NonSuccessKinds
GrantRefused ==
    /\ pc = "idle"
    /\ result.op \in {"login", "refresh", "access_token"}
    /\ ~result.ok
    /\ result.token = NoToken
    /\ calls.save = 0
    /\ store[token_file(profile)] = start

\* C11 as stated: after a non-2xx response from the token endpoint the
\* exchange returns an Auth error, never a TokenSet, so the enclosing login
\* or refresh returns an error and writes nothing to the store.
C11_AsStated ==
    NonSuccessAnswered => GrantRefused /\ result.err.kind = "Auth"

\* C11 amended: after a non-2xx response from the token endpoint the
\* exchange never returns a TokenSet, and the enclosing login or refresh
\* returns an error and writes nothing to the store.  The error is the Auth
\* error "oauth token exchange failed" when the body of the response can be
\* read, and the transport error when it cannot.
C11_NonSuccessRefused ==
    NonSuccessAnswered =>
        /\ GrantRefused
        /\ result.err = parse_token_response(calls.reply, 0).err
        /\ IF calls.reply.kind = "error_unreadable" THEN result.err = ErrHttp
           ELSE result.err.kind = "Auth" /\ result.err.msg = "oauth token exchange failed"

\* C11 witness: a login whose authorization-code grant was answered with a
\* non-2xx response and a structured error body has returned the Auth error.
C11_Witness ==
    /\ NonSuccessAnswered
    /\ result.op = "login"
    /\ calls.reply.kind = "error_structured"
    /\ result.err = ErrTokenExchange(<<"error", "description">>)

\* ------------------------------------------------------------------- C12
MalformedRedirect ==
    /\ is_some(settings.client_id)
    /\ ~UrlParse(redirect_uri(settings)).ok
LoginRunning == pc \notin {"idle", "pure"} \/ LoginReturned

\* C12 as stated: with a malformed redirect_uri, login fails with a
\* Configuration error before the browser is opened or the URL printed,
\* before a listener is bound and before any network activity.
C12_AsStated ==
    MalformedRedirect /\ LoginRunning =>
        /\ calls.browser = 0
        /\ sock.listener = "none"
        /\ calls.token = 0 /\ calls.userinfo = 0
        /\ LoginReturned => ~result.ok /\ result.err.kind = "Config"

\* ------------------------------------------------------------------- C13
RedirectUnusable ==
    /\ is_some(settings.client_id)
    /\ UrlParse(redirect_uri(settings)).ok
    /\ \/ UrlParse(redirect_uri(settings)).scheme # "http"
       \/ is_none(UrlParse(redirect_uri(settings)).host)
       \/ is_none(UrlParse(redirect_uri(settings)).port)

ClientIdWithoutSecret == is_some(settings.client_id) /\ is_none(settings.client_secret)

\* C14 as stated: with a client_id and no client_secret configured, the login
\* command goes on to the URL building with the settings as they are, never
\* failing first with a configuration error and never asking for a secret,
\* and the authorization-code grant carries a client_secret field only when
\* one is configured.
C14_AsStated ==
    /\ [][pc = "idle" /\ ClientIdWithoutSecret =>
              result'.op # "auth login" /\ settings' = settings]_vars
    /\ [](calls.form.grant_type = "authorization_code" =>
              calls.form.client_secret = settings.client_secret)

\* ------------------------------------------------------------------- C15
StatusReturned == pc = "idle" /\ result.op = "status"

\* C15: status performs no save, no clear and no network call, and leaves
\* every token file as it was; the AuthStatus it returns has logged_in true
\* exactly when a token is stored, and then expired is is_expired(now) of
\* that token.  On a token file that cannot be read it returns the error of
\* load.
C15_StatusReadOnly ==
    StatusReturned =>
        /\ calls = NoCalls
        /\ sock = NoSock
        /\ store[token_file(profile)] = start
        /\ store["p2"] = OtherFile
        /\ result.ok <=> start.kind # "garbage"
        /\ result.ok =>
              /\ result.status.logged_in <=> start.kind = "token"
              /\ result.status.logged_in =>
                    result.status.expired = Some(StoredExpired)
              /\ ~result.status.logged_in => result.status.expired = None

\* C15 witness: status on a stored token that is expired at the time of the
\* call reported it as logged in and expired, the file untouched.
C15_Witness ==
    /\ StatusReturned
    /\ result.ok
    /\ StoredExpired
    /\ result.status.expired = Some(TRUE)
    /\ store[token_file(profile)] = start

\* ------------------------------------------------------------------- C16
Loaded(files, p) == load_text(files[token_file(p)])
OtherProfilesKept ==
    \A q \in StoreProfiles \ {profile} : Loaded(store, q) = Loaded(start, q)

\* C16 as stated: load(p) returns None, not an error, when no file exists
\* for p; after save(p, t) succeeds, load(p) returns t; after clear(p),
\* load(p) returns None, and clear on an absent entry succeeds; save(p, _)
\* and clear(p) never change what load(q) returns for a different profile q.
C16_AsStated ==
    /\ result.op = "load" /\ ~start[token_file(profile)].exists =>
          result.ok /\ result.val = None
    /\ result.op = "save" /\ result.ok =>
          /\ Loaded(store, profile).ok
          /\ Loaded(store, profile).val = Some(result.arg)
    /\ result.op = "clear" /\ result.ok =>
          Loaded(store, profile).ok /\ Loaded(store, profile).val = None
    /\ result.op = "clear" /\ ~start[token_file(profile)].exists => result.ok
    /\ result.op \in {"save", "clear"} => OtherProfilesKept

\* C16, the part of it that holds: the clauses on load, save and clear of one
\* profile, the last clause for the profiles whose file is another one, and
\* save on the text of a file agreeing with save on the File it decodes to.
C16_RoundTrip ==
    /\ result.op = "load" /\ ~start[token_file(profile)].exists =>
          result.ok /\ result.val = None
    /\ result.op = "save" /\ result.ok =>
          /\ Loaded(store, profile).ok
          /\ Loaded(store, profile).val = Some(result.arg)
    /\ result.op = "clear" /\ result.ok =>
          Loaded(store, profile).ok /\ Loaded(store, profile).val = None
    /\ result.op = "clear" /\ ~start[token_file(profile)].exists => result.ok
    /\ result.op \in {"save", "clear"} =>
          \A q \in StoreProfiles :
              token_file(q) # token_file(profile) => Loaded(store, q) = Loaded(start, q)
    /\ \A f \in TokenFiles, t \in InitTokens, fault \in SaveFaults :
          decode(save_text(store[f], t, fault).file) = save(decode(store[f]), t, fault).file

\* ------------------------------------------------------------------- C17
HoldsCredential(f) ==
    f.exists /\ \E i \in DOMAIN f.text : f.text[i].part = "value"

\* C17 as stated: a token file that holds credential content has mode 0600:
\* after every save that returns Ok the mode of the file is 0600, and a save
\* that returns an error leaves no credential content in a file with wider
\* permissions.
C17_AsStated ==
    /\ result.op = "save" /\ result.ok =>
          store[token_file(profile)].mode = OwnerOnlyMode
    /\ \A f \in TokenFiles :
          HoldsCredential(store[f]) => store[f].mode = OwnerOnlyMode

\* ------------------------------------------------------------------- C19
BothSavesReturned == \A i \in Savers : pc[i] = "returned"
LastWriter == calls.writes[Len(calls.writes)]

\* C19 as stated: once two concurrent save calls for the same profile have
\* both returned, load(profile) returns exactly the TokenSet passed to the
\* save that wrote last.
C19_AsStated ==
    BothSavesReturned =>
        /\ load_text(store[token_file(profile)]).ok
        /\ load_text(store[token_file(profile)]).val = Some(start[LastWriter])

\* ------------------------------------------------------------------- C20
AccessTokenReturned == pc = "idle" /\ result.op = "access_token"
\* The token endpoint was asked and the grant, or the save after it, failed.
RefreshAttemptFailed ==
    /\ calls.token > 0
    /\ \/ calls.reply.kind # "success"
       \/ store[token_file(profile)].kind # "token"
       \/ store[token_file(profile)].mode # OwnerOnlyMode
       \/ calls.save = 0

OwnStateVerifierEntry(i) ==
    /\ is_some(login[i].code) =>
          /\ calls[i].got = LoginFlows[i].state
          /\ login[i].code = Some(LoginFlows[i].code)
    /\ calls[i].form # NoForm =>
          /\ calls[i].form.code_verifier = Some(LoginFlows[i].code_verifier)
          /\ calls[i].form.code = Some(LoginFlows[i].code)
    /\ calls[i].wrote \subseteq {token_file(profile[i])}
    /\ store[token_file(profile[i])] # AbsentFile =>
          token_file(profile[i]) \in calls[i].wrote
\* Call j found the port of its redirect_uri taken by the listener of call i.
LostBindTo(j, i) ==
    /\ i # j
    /\ result[j].err = ErrBind
    /\ calls[i].port = calls[j].port
\* The request that decided the outcome of call i was the redirect of the
\* authorization URL of call j.
DecidedByRedirectOf(i, j) == calls[i].got = LoginFlows[j].state

\* C18 as stated: each of two concurrent logins accepts a callback only with
\* its own state, exchanges only with its own code_verifier and writes only
\* the store entry of its own profile; and when one of them cannot bind the
\* port the other listens on, it fails with the bind Auth error and the
\* outcome of the other is not affected by it.
C18_AsStated ==
    \A i \in Logins :
        /\ OwnStateVerifierEntry(i)
        /\ \A j \in Logins :
              LostBindTo(j, i) =>
                  /\ pc[j] = "idle"
                  /\ ~result[j].ok
                  /\ ~DecidedByRedirectOf(i, j)

\* What holds of C18: the part of the claim on state, code_verifier and
\* store entry, and that a call which lost the bind has returned the bind
\* error without a code, a request to the token endpoint or a write.
C18_OwnStateVerifierEntry ==
    \A i \in Logins :
        /\ OwnStateVerifierEntry(i)
        /\ \A j \in Logins :
              LostBindTo(j, i) =>
                  /\ pc[j] = "idle"
                  /\ ~result[j].ok
                  /\ is_none(login[j].code)
                  /\ calls[j].form = NoForm
                  /\ calls[j].wrote = {}

\* ------------------------------------------------------------------- C30
\* C30 as stated: whatever the token file of the profile holds (nothing, a
\* token, or content that cannot be read or parsed), logout goes on to remove
\* it, and when it returns Ok, load(profile) returns None afterwards.
C30_AsStated ==
    LogoutReturned =>
        /\ calls.clear = 1
        /\ result.ok =>
              /\ load(store[token_file(profile)]).ok
              /\ is_none(load(store[token_file(profile)]).val)

\* ------------------------------------------------------------------- C24
\* The value the request gives a query parameter: that of its last pair with
\* the key, if it has one.
LastIndex(key) ==
    LET at == {i \in DOMAIN cb.query : cb.query[i][1] = key}
    IN IF at = {} THEN 0 ELSE CHOOSE i \in at : \A j \in at : j <= i
Param(key) == IF LastIndex(key) = 0 THEN None ELSE Some(cb.query[LastIndex(key)][2])
HandledGet == pc = "pure" /\ login.pending # NoPending /\ cb.method = "GET"
\* Checks (1) to (4) of the claim on the request in cb.
ValidationSequence ==
    IF cb.path # "/callback" THEN CodeErr(ErrPathMismatch)
    ELSE IF is_some(Param("error"))
    THEN CodeErr(ErrAuthorizationFailed(unwrap(Param("error")),
                    IF is_none(Param("error_description")) THEN "no description"
                    ELSE unwrap(Param("error_description"))))
    ELSE IF is_none(Param("state")) THEN CodeErr(ErrMissingState)
    ELSE IF unwrap(Param("state")) # login.state THEN CodeErr(ErrStateMismatch)
    ELSE IF is_none(Param("code")) THEN CodeErr(ErrMissingCode)
    ELSE CodeOk(unwrap(Param("code")))

\* C24 as stated: on a GET target the outcome is that of the sequence path,
\* error parameter, state, code, the first failing check giving the error.
C24_AsStated ==
    HandledGet => login.pending.res = ValidationSequence

\* C24 amended: a GET target that is not a URL fails with the URL parse
\* error; on every other GET target the outcome is that of the sequence
\* path, error parameter, state, code, the first failing check giving the
\* error, each of them an Auth error.
C24_DecisionSequence ==
    HandledGet =>
        /\ ~cb.target_ok => login.pending.res = CodeErr(ErrUrlParse)
        /\ cb.target_ok =>
              /\ login.pending.res = ValidationSequence
              /\ ~login.pending.res.ok => login.pending.res.err.kind = "Auth"

\* C24 witness: a GET for the callback path with an error parameter, the
\* state of the login and a code fails with the authorization error.
C24_Witness ==
    /\ HandledGet
    /\ cb.target_ok
    /\ cb.path = "/callback"
    /\ Param("error") = Some("access_denied")
    /\ Param("state") = Some(login.state)
    /\ Param("code") = Some("c1")
    /\ login.pending.res = CodeErr(ErrAuthorizationFailed("access_denied", "no description"))

\* ------------------------------------------------------------------- C25
\* The step in which the response write completes and the wait returns, the
\* deadline not having passed.
RespondStep == pc = "respond" /\ pc' # "respond" /\ BeforeDeadline
ReturnsCode == pc' = "exchange" /\ login'.code = login.pending.res.code
ReturnsErr(err) == pc' = "idle" /\ ~result'.ok /\ result'.err = err /\ login'.code = None
\* A response is written at most once on the accepted connection.
OneResponse ==
    sock.response # "none" /\ pc # "idle" => sock'.response = sock.response

\* C25 as stated: the wait returns a code only after a 200 was written; a
\* non-GET request is answered 405 and the wait fails with the non-GET Auth
\* error; a GET that fails validation is answered 400 and the wait fails with
\* the validation error; at most one response is written per connection.
C25_AsStated ==
    [][/\ OneResponse
       /\ RespondStep =>
             /\ login.pending.status = "405" <=> ~cb.get
             /\ login.pending.status = "200" <=> login.pending.res.ok
             /\ pc' = "exchange" => sock'.response = "200" /\ ReturnsCode
             /\ login.pending.status = "405" => ReturnsErr(ErrNonGet)
             /\ login.pending.status = "400" => ReturnsErr(login.pending.res.err)]_vars

\* C25 amended: the wait returns a code only after a 200 was written and the
\* connection shut down; a request that is not a GET is answered 405 and the
\* wait fails with the non-GET Auth error when that write succeeds and with
\* its I/O error when it fails; a GET that fails validation is answered 400,
\* a failure of that write is ignored, and the wait fails with the
\* validation error; a failed write of the 200 fails the wait with the I/O
\* error; at most one response is written per connection.
C25_ResponseMatchesOutcome ==
    [][/\ OneResponse
       /\ RespondStep =>
             /\ login.pending.status = "405" <=> ~cb.get
             /\ login.pending.status = "200" <=> login.pending.res.ok
             /\ sock'.response \in {login.pending.status, "none"}
             /\ pc' = "exchange" => sock'.response = "200" /\ ReturnsCode
             /\ login.pending.status = "200" => ReturnsCode \/ ReturnsErr(ErrIo)
             /\ login.pending.status = "405" =>
                   \/ ReturnsErr(ErrNonGet) /\ sock'.response = "405"
                   \/ ReturnsErr(ErrIo)
             /\ login.pending.status = "400" => ReturnsErr(login.pending.res.err)]_vars

\* C25 witness: a request that was not a GET has been answered 405 and login
\* has failed with the non-GET error.
C25_Witness ==
    /\ LoginReturned
    /\ cb.received
    /\ ~cb.get
    /\ sock.response = "405"
    /\ result.err = ErrNonGet

\* ------------------------------------------------------------------- C26
\* A step taken while a connection is accepted.
OneRequestStep ==
    pc \in {"read", "respond"} =>
        /\ sock.conn = "open"
        /\ pc' # "accept"
        /\ pc = "read" => pc' \in {"read", "respond", "idle"}
        /\ pc = "respond" => pc' \in {"respond", "exchange", "idle"}
        /\ pc' \in {"read", "respond"} =>
              sock'.conn = "open" /\ sock'.listener = sock.listener
        /\ pc' \in {"exchange", "idle"} =>
              sock'.conn = "closed" /\ sock'.listener = "closed"
        /\ pc' = "idle" => ~result'.ok /\ result'.op = "login"

\* C26: during a login the listener accepts at most one connection.  Once a
\* connection is accepted the wait never accepts again: while it waits for
\* the request the connection stays as it is, and the next step it takes on
\* the connection (a request read and answered, an empty request, an I/O
\* error) or the deadline ends the wait, with the code or with the error of
\* that connection, and closes listener and connection, whatever time
\* remains before the deadline.
C26_OneRequest == [][OneRequestStep]_vars

\* C26 witness: the one connection sent nothing, and login has returned the
\* empty-request error with listener and connection closed.
C26_Witness ==
    /\ LoginReturned
    /\ result.err = ErrEmptyRequest
    /\ sock.conn = "closed"
    /\ sock.listener = "closed"

\* ------------------------------------------------------------------- C27
\* A refresh grant was made and refresh returned Ok: the token it returned is
\* the persisted record.
RefreshSucceeded ==
    /\ RefreshReturned
    /\ result.ok
    /\ calls.token = 1
    /\ store[token_file(profile)].kind = "token"
    /\ store[token_file(profile)].tok = result.token

\* C27 as stated: after a successful refresh the persisted record has the
\* access token and expiry of the response, the refresh token of the
\* response or else the stored one, an email that is the stored one unless a
\* new one was supplied, and the token_type, scope and name it had before.
C27_AsStated ==
    RefreshSucceeded =>
        /\ result.token.access_token = calls.reply.payload.access_token
        /\ result.token.refresh_token =
              IF is_some(calls.reply.payload.refresh_token)
              THEN calls.reply.payload.refresh_token ELSE start.tok.refresh_token
        /\ result.token.email \in {start.tok.email} \cup {Some(e) : e \in EmailReplies}
        /\ result.token.token_type = start.tok.token_type
        /\ result.token.scope = start.tok.scope
        /\ result.token.name = start.tok.name

\* ------------------------------------------------------------------- C28
\* The authorization URL of the running login has been handed to the browser
\* or printed, and the wait for the redirect has not ended.
UrlHandedOver == calls.browser = 1 /\ pc \in {"bind", "accept"}

\* C28 as stated: from the moment the authorization URL is handed to the
\* browser, a redirect finds the callback listener bound.
C28_AsStated ==
    UrlHandedOver => sock.listener = "bound"

\* ------------------------------------------------------------------- C29
\* The first call of login failed with an Auth error that says the client
\* secret is missing, and the command has returned.
SecretReportedMissing ==
    /\ pc = "done"
    /\ calls.login >= 1
    /\ ~login.ok
    /\ login.err.kind = "Auth"
    /\ missing_client_secret_error(login.err)

\* C29 as stated: when the first login fails with an Auth error saying the
\* client secret is missing and stdin is a terminal, the command prompts for
\* a secret, saves it and calls login exactly once more (unless the prompt or
\* the save fails); after any other error there is no second call; login is
\* called at most twice.
C29_AsStated ==
    /\ calls.login <= 2
    /\ pc = "done" /\ ~SecretReportedMissing => calls.login <= 1
    /\ SecretReportedMissing /\ cb.terminal =>
          /\ calls.prompt = 1
          /\ result.err # ErrIo => calls.login = 2 /\ calls.save_settings = 1

\* What holds of C29: login is called at most once per command, and an
\* error of the first call is returned without a prompt.
C29_NoSecondAttempt ==
    /\ calls.login <= 1
    /\ calls.prompt = 0
    /\ pc = "done" /\ calls.login = 1 /\ ~login.ok =>
          result.err = login.err /\ ~result.ok

\* ------------------------------------------------------------------- C22
\* The steps of login in their order: a step leads to the next one or, on an
\* error, to the return of login.
LoginOrder ==
    {<<"idle", "bind">>, <<"bind", "accept">>, <<"accept", "read">>, <<"read", "respond">>,
     <<"respond", "exchange">>, <<"exchange", "userinfo">>, <<"userinfo", "save">>,
     <<"save", "idle">>}
        \cup {<<p, "idle">> : p \in {"bind", "accept", "read", "respond", "exchange"}}
OrderStep == pc' # pc => <<pc, pc'>> \in LoginOrder
\* The callback of this login passed validation and was answered 200.
CallbackValidated ==
    /\ cb.received
    /\ cb.get
    /\ cb.target_ok
    /\ cb.state_match
    /\ ~cb.has_error
    /\ sock.response = "200"
    /\ calls.browser = 1

\* C22: login takes its steps in order and skips none.  While it runs and
\* when it has returned, the token endpoint has been called only after a
\* callback passed validation, TokenStore::save only after the token
\* endpoint returned a 2xx token response, and login has returned Ok only
\* after save returned Ok, the token being in the store.
C22_LoginOrder ==
    /\ [][OrderStep]_vars
    /\ [](LoginRunning =>
            /\ calls.token > 0 \/ pc \in {"exchange", "userinfo", "save"} => CallbackValidated
            /\ calls.save > 0 \/ pc \in {"userinfo", "save"} =>
                  calls.token = 1 /\ calls.reply.kind = "success"
            /\ pc = "save" => calls.userinfo = 1
            /\ LoginReturned /\ result.ok =>
                  /\ calls.save = 1
                  /\ calls.userinfo = 1
                  /\ store[token_file(profile)].kind = "token"
                  /\ store[token_file(profile)].tok = result.token
                  /\ store[token_file(profile)].mode = OwnerOnlyMode)

\* C22 witness: login has returned Ok after one validated callback, one
\* token exchange and one save.
C22_Witness ==
    /\ LoginReturned
    /\ result.ok
    /\ CallbackValidated
    /\ calls.token = 1
    /\ calls.save = 1
    /\ store[token_file(profile)].tok = result.token

\* ------------------------------------------------------------------- C23
\* The text fields of a stored token.
TokenTexts(tok) ==
    {tok.access_token} \cup tok.refresh_token \cup tok.token_type \cup tok.scope
        \cup tok.email \cup tok.name
\* The random tokens of the login flows and their challenges.
FlowTexts ==
    {f.state : f \in Flows} \cup {f.code_verifier : f \in Flows}
        \cup {pkce_challenge(f.code_verifier) : f \in Flows}

\* C23: within one login the code_verifier posted with the
\* authorization-code grant is the verifier whose S256 challenge is in the
\* authorization URL of that login, and the state the callback is checked
\* against is the state in that URL; the LoginFlow is gone when login has
\* returned and no token file holds a state, a verifier or a challenge.
C23_PkceStateBinding ==
    /\ LoginRunning /\ pc # "idle" =>
          /\ login.state \in {f.state : f \in Flows}
          /\ login.code_verifier \in {f.code_verifier : f \in Flows}
          /\ login.authorization_url = calls.url
          /\ calls.url.state = login.state
          /\ calls.url.code_challenge = pkce_challenge(login.code_verifier)
          /\ calls.url.code_challenge_method = "S256"
          /\ is_some(login.code) => cb.state_match
    /\ LoginRunning /\ calls.token > 0 =>
          /\ calls.form.grant_type = "authorization_code"
          /\ is_some(calls.form.code_verifier)
          /\ pkce_challenge(unwrap(calls.form.code_verifier)) = calls.url.code_challenge
          /\ cb.state_match
    /\ LoginReturned /\ result.ok => result.login_result.authorization_url = calls.url
    /\ pc = "idle" => login = NoLogin
    /\ \A f \in TokenFiles : TokenTexts(store[f].tok) \cap FlowTexts = {}

\* C23 witness: a login has posted the verifier "v2" after its URL carried
\* the challenge of "v2" and the state "s2", and its callback carried "s2".
C23_Witness ==
    /\ LoginReturned
    /\ result.ok
    /\ calls.form.code_verifier = Some("v2")
    /\ calls.url.code_challenge = pkce_challenge("v2")
    /\ calls.url.state = "s2"
    /\ cb.state_match

\* ------------------------------------------------------------------- C21
\* The secret values the program holds or has sent: the client_secret, the
\* access and refresh tokens of the token files, of the token endpoint's
\* reply and of the tokens in hand, and the code verifiers.
TokenSecrets(tok) == {tok.access_token} \cup tok.refresh_token
Secrets ==
    (client_secret(settings)
        \cup UNION {TokenSecrets(store[f].tok) : f \in TokenFiles}
        \cup TokenSecrets(start.tok)
        \cup TokenSecrets(login.token)
        \cup TokenSecrets(result.token)
        \cup TokenSecrets(calls.reply.payload)
        \cup calls.form.refresh_token
        \cup calls.form.client_secret
        \cup {f.code_verifier : f \in Flows}) \ {""}
\* The state the callback of the current login is compared with.
ExpectedState == {calls.url.state} \ {""}

\* The texts of what was emitted: the authorization URL, the AuthLoginResult
\* and the AuthStatus records.
UrlTexts(u) ==
    {u.response_type, u.client_id, u.redirect_uri, u.scope, u.access_type, u.prompt,
     u.state, u.code_challenge, u.code_challenge_method}
LoginResultTexts(r) == UrlTexts(r.authorization_url) \cup r.email \cup {r.note}
StatusTexts(st) == st.email \cup {st.note}
EmittedRecords ==
    UrlTexts(calls.url) \cup LoginResultTexts(result.login_result)
        \cup StatusTexts(result.status)
\* The response body reports the provider error that the request carried and
\* v is the error or error_description text of that request.
ReportsRequestError(v) ==
    /\ LoginReturned
    /\ sock.response = "400"
    /\ cb.get
    /\ cb.has_error
    /\ result.err.kind = "Auth"
    /\ result.err.msg = "oauth authorization failed"
    /\ \E i \in DOMAIN result.err.detail : result.err.detail[i] = v

====
